---- MODULE Spec2Model ----
(***************************************************************************)
(* A model of knex-utils' schema-introspection-to-migration generator      *)
(* (lib/consolidate.js) and of the module surface it imports (index.js).   *)
(*                                                                         *)
(* Text.  A JavaScript string is modelled as a sequence of fragments; a    *)
(* fragment is one character ("'", ":", "1", ...) or an indivisible word   *)
(* of word characters ("nextval", "citext", "true", ...).  Concatenation   *)
(* is \o, the empty string is << >>.  Every string operation of the code   *)
(* (regular-expression match, replace, startsWith, Number, JSON.parse) is  *)
(* computed fragment by fragment.                                          *)
(*                                                                         *)
(* null / undefined.  A nullable value is a sequence of length 0 (null)    *)
(* or 1 (the value): NULL == << >>, Some(v) == <<v>>.                      *)
(***************************************************************************)
EXTENDS Integers, Sequences, FiniteSets, TLC

NULL == << >>

Some(v) == <<v>>

IsNull(o) == o = << >>

Val(o) == o[1]

(***************************************************************************)
(* Bounds of the model.                                                    *)
(***************************************************************************)
\* the longest enumerated raw default expression, in fragments
MaxDefaultLen == 3

\* the most index rows the catalog returns for one table
MaxIndexes == 2

(***************************************************************************)
(* Fragments and their character classes.                                  *)
(***************************************************************************)
Q == "'"

BS == "\\"

Digits == {"0", "1"}

\* fragments made only of letters ([A-Za-z]+), each an indivisible word
Words == {"a", "nextval", "citext", "true", "false", "null", "lower"}

\* \w : [A-Za-z0-9_]
IsWordChar(f) == f \in Digits \cup Words

\* \s
IsSpace(f) == f = " "

\* the alphabet of the enumerated default expressions
Alphabet == {Q, BS, ":", "-", ".", "1", "a"}

\* the strings of S and those of length n - 1 of S with one more fragment
Lengthened(S, n) ==
    S \cup {Append(s, f) : s \in {t \in S : Len(t) = n - 1}, f \in Alphabet}

RECURSIVE StringsUpTo(_)
StringsUpTo(n) == IF n = 0 THEN {<< >>} ELSE Lengthened(StringsUpTo(n - 1), n)

\* s.slice(i) with 1-based i: the fragments from position i on
From(s, i) == SubSeq(s, i, Len(s))

(***************************************************************************)
(* String operations of lib/consolidate.js.                                *)
(***************************************************************************)
\* the positions of s holding fragment f
Positions(s, f) == {i \in 1..Len(s) : s[i] = f}

Max(S) == CHOOSE x \in S : \A y \in S : y <= x

Min(S) == CHOOSE x \in S : \A y \in S : x <= y

\* defaultValue.startsWith('nextval')
StartsWithNextval(s) == Len(s) >= 1 /\ s[1] = "nextval"

\* t matches ::[\w\s]+ as a whole
IsCastSuffix(t) ==
    /\ Len(t) >= 3
    /\ t[1] = ":"
    /\ t[2] = ":"
    /\ \A i \in 3..Len(t) : IsWordChar(t[i]) \/ IsSpace(t[i])

\* s.match(/^('.*')(::[\w\s]+)?$/): the end of group 1, 0 when there is no
\* match.  '.*' is greedy: the match ends group 1 at the last closing quote
\* after which the rest is empty or a cast suffix.
QuotedLiteralEnd(s) ==
    LET ends == {k \in 2..Len(s) :
                    /\ s[1] = Q
                    /\ s[k] = Q
                    /\ (k = Len(s) \/ IsCastSuffix(From(s, k + 1)))}
    IN  IF ends = {} THEN 0 ELSE Max(ends)

\* g.replace(/\\'/g, "'"): every backslash-quote pair replaced
RECURSIVE ReplaceEveryEscapedQuote(_)
ReplaceEveryEscapedQuote(g) ==
    IF Len(g) = 0 THEN << >>
    ELSE IF Len(g) >= 2 /\ g[1] = BS /\ g[2] = Q
    THEN <<Q>> \o ReplaceEveryEscapedQuote(Tail(Tail(g)))
    ELSE <<g[1]>> \o ReplaceEveryEscapedQuote(Tail(g))

\* g.replace(/\\'/, "'"): the regular expression has no g flag, so only the
\* first backslash-quote pair is replaced
ReplaceEscapedQuote(g) ==
    LET hits == {i \in 1..(Len(g) - 1) : g[i] = BS /\ g[i + 1] = Q}
    IN  IF hits = {} THEN g
        ELSE LET i == Min(hits)
             IN  SubSeq(g, 1, i - 1) \o From(g, i + 1)

\* s.replace("'", ''): a string pattern replaces the first occurrence only
RemoveFirstQuote(s) ==
    LET hits == Positions(s, Q)
    IN  IF hits = {} THEN s
        ELSE LET i == Min(hits)
             IN  SubSeq(s, 1, i - 1) \o From(s, i + 1)

\* s.match(/::([\s\w]+)$/): group 1 as Some(text), NULL when there is no match
CastName(s) ==
    LET starts == {i \in 1..Len(s) : IsCastSuffix(From(s, i))}
    IN  IF starts = {} THEN NULL ELSE Some(From(s, Min(starts) + 2))

(***************************************************************************)
(* Number(text) and JSON.parse(text), and the text a template literal      *)
(* prints for their result.  Exact for the fragments of this model: no     *)
(* fragment sequence spells an exponent, a radix prefix or Infinity, and   *)
(* the bounded lengths stay inside the range Number prints in plain        *)
(* decimal notation.                                                       *)
(***************************************************************************)
RECURSIVE TrimLeft(_)
TrimLeft(s) == IF Len(s) > 0 /\ IsSpace(s[1]) THEN TrimLeft(Tail(s)) ELSE s

RECURSIVE TrimRight(_)
TrimRight(s) ==
    IF Len(s) > 0 /\ IsSpace(s[Len(s)]) THEN TrimRight(SubSeq(s, 1, Len(s) - 1)) ELSE s

Trim(s) == TrimRight(TrimLeft(s))

AllDigits(s) == \A i \in 1..Len(s) : s[i] \in Digits

RECURSIVE StripLeadingZeros(_)
StripLeadingZeros(s) ==
    IF Len(s) > 0 /\ s[1] = "0" THEN StripLeadingZeros(Tail(s)) ELSE s

RECURSIVE StripTrailingZeros(_)
StripTrailingZeros(s) ==
    IF Len(s) > 0 /\ s[Len(s)] = "0"
    THEN StripTrailingZeros(SubSeq(s, 1, Len(s) - 1))
    ELSE s

\* the unsigned body split at its decimal point: <<integer part, fraction>>
SplitAtPoint(b) ==
    LET dots == Positions(b, ".")
    IN  IF dots = {} THEN <<b, << >> >>
        ELSE <<SubSeq(b, 1, Min(dots) - 1), From(b, Min(dots) + 1)>>

\* String(x) for the number with the given sign and digits
NumberText(negative, intPart, fracPart) ==
    LET i == StripLeadingZeros(intPart)
        f == StripTrailingZeros(fracPart)
    IN  (IF negative /\ (i # << >> \/ f # << >>) THEN <<"-">> ELSE << >>)
        \o (IF i = << >> THEN <<"0">> ELSE i)
        \o (IF f = << >> THEN << >> ELSE <<".">> \o f)

\* Number(s): NULL for NaN, else Some(the text String prints for the value).
\* StringNumericLiteral: optional white space around an optional sign and
\* digits "." digits?, "." digits or digits; the empty string is 0.
NumberOf(s) ==
    LET t        == Trim(s)
        signed   == Len(t) > 0 /\ t[1] \in {"-", "+"}
        b        == IF signed THEN Tail(t) ELSE t
        parts    == SplitAtPoint(b)
        wellFormed ==
            /\ AllDigits(parts[1])
            /\ AllDigits(parts[2])
            /\ Len(parts[1]) + Len(parts[2]) > 0
    IN  IF t = << >> THEN Some(<<"0">>)
        ELSE IF wellFormed THEN Some(NumberText(signed /\ t[1] = "-", parts[1], parts[2]))
        ELSE NULL

\* Str.tryParseJson(s) of sm-utils: JSON.parse(s), null when it throws.
\* NULL for null, else Some(the text a template literal prints for the value).
\* JSON number: -? (0 | [1-9] digits) ("." digits+)?
TryParseJson(s) ==
    LET t        == Trim(s)
        negative == Len(t) > 0 /\ t[1] = "-"
        b        == IF negative THEN Tail(t) ELSE t
        parts    == SplitAtPoint(b)
        hasPoint == Positions(b, ".") # {}
        isNumber ==
            /\ AllDigits(parts[1])
            /\ AllDigits(parts[2])
            /\ Len(parts[1]) > 0
            /\ (Len(parts[1]) > 1 => parts[1][1] # "0")
            /\ (hasPoint => Len(parts[2]) > 0)
    IN  IF t = <<"true">> \/ t = <<"false">> THEN Some(t)
        ELSE IF isNumber THEN Some(NumberText(negative, parts[1], parts[2]))
        ELSE NULL

(***************************************************************************)
(* index.js: what the module exports.  consolidate.js destructures         *)
(* getKnex and getLogger from it; a name the module does not export is     *)
(* undefined there, and calling it throws a TypeError.                     *)
(***************************************************************************)
moduleExports ==
    {"getKnexFile", "getKnex", "setKnex", "setLogger", "dropDb", "createDb",
     "recreateDb", "refreshDb", "copyDb", "copyDbForTest", "rollbackCopyDbForTest",
     "resetPgSequences", "seedFolder", "addColumn", "updateColumnInBatch"}

\* const {getKnex, getLogger} = require('./index'): is getLogger a function?
getLoggerIsFunction == "getLogger" \in moduleExports

(***************************************************************************)
(* Results of the functions.  threw = "" when the call returns.            *)
(***************************************************************************)
NoThrow == ""

InvalidType == "Error: invalid type"

TypeError == "TypeError"

\* the value of extraParams while it is undefined (the code treats undefined
\* and the empty array alike, line 229)
NoParams == << >>

\* getLogger().warn(...args) where evaluating args reads
\* columnInfo.detailedInfo.<field>: getLogger() is called first, the
\* arguments are evaluated next, the warning is logged last.
\* <<what is thrown, warnings logged>>
WarnAboutColumn(columnInfo) ==
    IF ~getLoggerIsFunction THEN <<TypeError, 0>>
    ELSE IF IsNull(columnInfo.detailedInfo) THEN <<TypeError, 0>>
    ELSE <<NoThrow, 1>>

\* getLogger().warn(...) with arguments that cannot throw
Warn ==
    IF ~getLoggerIsFunction THEN <<TypeError, 0>> ELSE <<NoThrow, 1>>

(***************************************************************************)
(* getType                                                                 *)
(***************************************************************************)
\* the table with real mapped as numeric is
mapRealAsDecimal ==
    ("integer" :> "integer") @@
    ("character varying" :> "string") @@
    ("jsonb" :> "jsonb") @@
    ("timestamp with time zone" :> "timestamp") @@
    ("text" :> "text") @@
    ("boolean" :> "boolean") @@
    ("real" :> "decimal") @@
    ("numeric" :> "decimal") @@
    ("USER-DEFINED" :> "specificType")

map ==
    ("integer" :> "integer") @@
    ("character varying" :> "string") @@
    ("jsonb" :> "jsonb") @@
    ("timestamp with time zone" :> "timestamp") @@
    ("text" :> "text") @@
    ("boolean" :> "boolean") @@
    ("real" :> "float") @@
    ("numeric" :> "decimal") @@
    ("USER-DEFINED" :> "specificType")

\* the switch statement without its integer case: a sequence default stays
\* an integer
getTypeSwitchKeepsInteger(type, columnInfo) ==
    [threw |-> NoThrow, type |-> type, extraParams |-> NoParams]

\* the refinement of the switch statement for a mapped type
getTypeSwitch(type, columnInfo) ==
    CASE type = "specificType" ->
            IF IsNull(columnInfo.defaultValue)
            THEN [threw |-> TypeError, type |-> type, extraParams |-> NoParams]
            ELSE LET name == CastName(Val(columnInfo.defaultValue))
                 IN  IF IsNull(name)
                     THEN [threw |-> TypeError, type |-> type, extraParams |-> NoParams]
                     ELSE [threw |-> NoThrow, type |-> type,
                           extraParams |-> << <<Q>> \o Val(name) \o <<Q>> >>]
      [] type = "integer" ->
            IF /\ ~IsNull(columnInfo.defaultValue)
               /\ StartsWithNextval(Val(columnInfo.defaultValue))
            THEN [threw |-> NoThrow, type |-> "increments", extraParams |-> NoParams]
            ELSE [threw |-> NoThrow, type |-> type, extraParams |-> NoParams]
      [] type = "string" ->
            IF IsNull(columnInfo.detailedInfo)
            THEN [threw |-> TypeError, type |-> type, extraParams |-> NoParams]
            ELSE LET n == Val(columnInfo.detailedInfo).character_maximum_length
                 IN  IF ~IsNull(n) /\ Val(n) # 0
                     THEN [threw |-> NoThrow, type |-> type,
                           extraParams |-> << <<ToString(Val(n))>> >>]
                     ELSE [threw |-> NoThrow, type |-> type, extraParams |-> NoParams]
      [] type = "numeric" ->
            IF IsNull(columnInfo.detailedInfo)
            THEN [threw |-> TypeError, type |-> type, extraParams |-> NoParams]
            ELSE LET n == Val(columnInfo.detailedInfo).numeric_precision
                 IN  IF ~IsNull(n) /\ Val(n) # 0
                     THEN [threw |-> NoThrow, type |-> type,
                           extraParams |-> << <<ToString(Val(n))>> >>]
                     ELSE [threw |-> NoThrow, type |-> type, extraParams |-> NoParams]
      [] OTHER -> [threw |-> NoThrow, type |-> type, extraParams |-> NoParams]

getType(columnInfo) ==
    IF columnInfo.type \notin DOMAIN map
    THEN [threw |-> InvalidType, type |-> "", extraParams |-> NoParams]
    ELSE getTypeSwitch(map[columnInfo.type], columnInfo)

(***************************************************************************)
(* nullable, defaults, indexed, primary: each returns the text of its      *)
(* modifier.                                                               *)
(***************************************************************************)
nullable(columnInfo) ==
    IF ~IsNull(columnInfo.index) /\ Val(columnInfo.index).is_primary THEN << >>
    ELSE IF columnInfo.nullable THEN <<".nullable()">>
    ELSE <<".notNullable()">>

DefaultTo(defaultVal) == <<".defaultTo(">> \o defaultVal \o <<")">>

\* the part of defaults after the type is known and is not increments
defaultsOfType(type, columnInfo) ==
    LET raw == Val(columnInfo.defaultValue)
        k   == QuotedLiteralEnd(raw)
    IN  IF k > 0
        THEN [threw |-> NoThrow, warned |-> 0,
              text |-> DefaultTo(ReplaceEscapedQuote(SubSeq(raw, 1, k)))]
        ELSE IF type = "numeric" \/ type = "integer"
        THEN LET defaultVal == NumberOf(RemoveFirstQuote(raw))
             IN  IF IsNull(defaultVal)
                 THEN LET w == WarnAboutColumn(columnInfo)
                      IN  [threw |-> w[1], warned |-> w[2], text |-> << >>]
                 ELSE [threw |-> NoThrow, warned |-> 0, text |-> DefaultTo(Val(defaultVal))]
        ELSE IF type = "boolean"
        THEN LET defaultVal == TryParseJson(RemoveFirstQuote(raw))
             IN  IF IsNull(defaultVal)
                 THEN LET w == WarnAboutColumn(columnInfo)
                      IN  [threw |-> w[1], warned |-> w[2], text |-> << >>]
                 ELSE [threw |-> NoThrow, warned |-> 0, text |-> DefaultTo(Val(defaultVal))]
        ELSE [threw |-> NoThrow, warned |-> 0, text |-> << >>]

defaults(columnInfo) ==
    IF IsNull(columnInfo.defaultValue)
    THEN [threw |-> NoThrow, warned |-> 0, text |-> << >>]
    ELSE LET t == getType(columnInfo)
         IN  IF t.threw # NoThrow
             THEN [threw |-> t.threw, warned |-> 0, text |-> << >>]
             ELSE IF t.type = "increments"
             THEN [threw |-> NoThrow, warned |-> 0, text |-> << >>]
             ELSE defaultsOfType(t.type, columnInfo)

\* indexed without its is_primary line
indexedIgnoringPrimary(columnInfo) ==
    IF IsNull(columnInfo.index) \/ ~Val(columnInfo.index).single THEN << >>
    ELSE IF Val(columnInfo.index).is_unique THEN <<".unique()">>
    ELSE <<".index()">>

indexed(columnInfo) ==
    IF IsNull(columnInfo.index) \/ ~Val(columnInfo.index).single THEN << >>
    ELSE IF Val(columnInfo.index).is_primary THEN << >>
    ELSE IF Val(columnInfo.index).is_unique THEN <<".unique()">>
    ELSE <<".index()">>

primary(columnInfo) ==
    IF IsNull(columnInfo.index) \/ ~Val(columnInfo.index).single THEN << >>
    ELSE IF Val(columnInfo.index).is_primary THEN <<".primary()">>
    ELSE << >>

(***************************************************************************)
(* singleTableGenerator                                                    *)
(***************************************************************************)
\* texts.join(sep)
RECURSIVE Join(_, _)
Join(texts, sep) ==
    IF Len(texts) = 0 THEN << >>
    ELSE IF Len(texts) = 1 THEN texts[1]
    ELSE texts[1] \o sep \o Join(Tail(texts), sep)

\* c.replace(/"/g, ''): every double quote removed
RECURSIVE StripDoubleQuotes(_)
StripDoubleQuotes(c) ==
    IF Len(c) = 0 THEN << >>
    ELSE IF c[1] = "\"" THEN StripDoubleQuotes(Tail(c))
    ELSE <<c[1]>> \o StripDoubleQuotes(Tail(c))

CitextParam == <<Q, "citext", Q>>

CitextExtension == <<"\n\t\t.raw('CREATE EXTENSION IF NOT EXISTS CITEXT')">>

\* One call of the callback of Object.keys(columnsInfo).map (lines 213-235).
\* citextDone is extrasDone.citext before the call.  The result carries the
\* clause as text and, slot by slot, the interpolated parts of its template.
columnClause(columnName, columnInfo, citextDone) ==
    LET t == getType(columnInfo)
        none == [threw |-> t.threw, warned |-> 0, citext |-> FALSE, type |-> t.type,
                 extraParams |-> << >>, primary |-> << >>, nullable |-> << >>,
                 defaults |-> << >>, indexed |-> << >>, text |-> << >>]
    IN  IF t.threw # NoThrow THEN none
        ELSE
        LET isCitext == t.type = "specificType" /\ t.extraParams[1] = CitextParam
            w == IF t.type = "specificType" /\ ~isCitext THEN Warn ELSE <<NoThrow, 0>>
        IN  IF w[1] # NoThrow THEN [none EXCEPT !.threw = w[1]]
            ELSE
            LET extraParams == IF Len(t.extraParams) > 0
                               THEN <<", ">> \o Join(t.extraParams, <<", ">>)
                               ELSE << >>
                d == defaults(columnInfo)
            IN  IF d.threw # NoThrow
                THEN [none EXCEPT !.threw = d.threw, !.warned = w[2] + d.warned]
                ELSE [threw |-> NoThrow, warned |-> w[2] + d.warned,
                      citext |-> isCitext /\ ~citextDone,
                      type |-> t.type,
                      extraParams |-> extraParams,
                      primary |-> primary(columnInfo),
                      nullable |-> nullable(columnInfo),
                      defaults |-> d.text,
                      indexed |-> indexed(columnInfo),
                      text |-> <<"\t\t\ttable.", t.type, "('">> \o columnName \o <<"'">>
                               \o extraParams \o <<")">> \o primary(columnInfo)
                               \o nullable(columnInfo) \o d.text
                               \o indexed(columnInfo) \o <<";">>]

\* the callback over the columns i..Len(columnsInfo), in key order; it stops
\* at the first call that throws
\* acc is what the calls before column i have made: the warnings logged,
\* extrasDone.citext and the clauses
columnClausesStep(acc, c) ==
    [threw |-> c.threw,
     warned |-> acc.warned + c.warned,
     citext |-> acc.citext \/ c.citext,
     clauses |-> IF c.threw = NoThrow THEN Append(acc.clauses, c) ELSE << >>]

RECURSIVE columnClauses(_, _, _)
columnClauses(columnsInfo, i, acc) ==
    IF i > Len(columnsInfo) \/ acc.threw # NoThrow THEN acc
    ELSE columnClauses(columnsInfo, i + 1,
             columnClausesStep(acc, columnClause(columnsInfo[i].name, columnsInfo[i].info,
                                                 acc.citext)))

\* the clause of one index that is not single (lines 238-252)
indexClause(index) ==
    LET columnsArrStr ==
            Join([j \in 1..Len(index.indexed_columns) |->
                     <<Q>> \o StripDoubleQuotes(index.indexed_columns[j]) \o <<Q>>],
                 <<", ">>)
    IN  IF index.multiple
        THEN [threw |-> NoThrow, warned |-> 0,
              text |-> IF index.is_primary
                       THEN <<"\t\t\ttable.primary([">> \o columnsArrStr \o <<"]);">>
                       ELSE IF index.is_unique
                       THEN <<"\t\t\ttable.unique([">> \o columnsArrStr \o <<"]);">>
                       ELSE <<"\t\t\ttable.index([">> \o columnsArrStr \o <<"]);">>]
        ELSE [threw |-> Warn[1], warned |-> Warn[2], text |-> << >>]

indexClausesStep(acc, index, c) ==
    [threw |-> c.threw,
     warned |-> acc.warned + c.warned,
     clauses |-> IF c.threw = NoThrow
                 THEN Append(acc.clauses, [name |-> index.index_name, text |-> c.text])
                 ELSE << >>]

\* indexInfo.filter(i => !i.single).map(...) from index i on
RECURSIVE indexClauses(_, _, _)
indexClauses(indexInfo, i, acc) ==
    IF i > Len(indexInfo) \/ acc.threw # NoThrow THEN acc
    ELSE IF indexInfo[i].single THEN indexClauses(indexInfo, i + 1, acc)
    ELSE indexClauses(indexInfo, i + 1,
             indexClausesStep(acc, indexInfo[i], indexClause(indexInfo[i])))

\* singleTableGenerator(table, columnsInfo, indexInfo): the migration source
\* as text, with the column clauses and the table-level index clauses it is
\* made of
\* the template literal the function returns (lines 255-265)
migrationSource(table, extra, columns, indexes) ==
    <<"exports.up = async function (knex) {\n\treturn knex.schema">>
    \o extra
    \o <<"\n\t\t.createTable('", table, "', (table) => {\n">>
    \o columns
    \o (IF indexes # << >> THEN <<"\n">> ELSE << >>)
    \o indexes
    \o <<"\n\t\t});\n};\n\nexports.down = async function (knex) {\n\treturn knex.schema\n\t\t.dropTableIfExists('",
         table, "');\n};">>

\* the function once the column clauses (cols) and the index clauses (idx)
\* are made; idx is not made when a column call has thrown
singleTableGeneratorResult(table, cols, idx) ==
    IF cols.threw # NoThrow
    THEN [threw |-> cols.threw, warned |-> cols.warned, columns |-> << >>,
          indexes |-> << >>, text |-> << >>]
    ELSE IF idx.threw # NoThrow
    THEN [threw |-> idx.threw, warned |-> cols.warned + idx.warned,
          columns |-> << >>, indexes |-> << >>, text |-> << >>]
    ELSE [threw |-> NoThrow,
          warned |-> cols.warned + idx.warned,
          columns |-> cols.clauses,
          indexes |-> idx.clauses,
          text |-> migrationSource(
                       table,
                       IF cols.citext THEN CitextExtension ELSE << >>,
                       Join([j \in 1..Len(cols.clauses) |-> cols.clauses[j].text], <<"\n">>),
                       Join([j \in 1..Len(idx.clauses) |-> idx.clauses[j].text], <<"\n">>))]

\* singleTableGenerator(table, columnsInfo, indexInfo): the migration source
\* as text, with the column clauses and the table-level index clauses it is
\* made of
singleTableGenerator(table, columnsInfo, indexInfo) ==
    singleTableGeneratorResult(
        table,
        columnClauses(columnsInfo, 1,
            [threw |-> NoThrow, warned |-> 0, citext |-> FALSE, clauses |-> << >>]),
        indexClauses(indexInfo, 1, [threw |-> NoThrow, warned |-> 0, clauses |-> << >>]))

(***************************************************************************)
(* getTables, getColumns and the index classification of generate().       *)
(* A column map is the sequence of its entries [name, info] in key order.  *)
(***************************************************************************)
tablesToIgnore == {"knex_migrations", "knex_migrations_lock"}

\* rows.filter(table => !tablesToIgnore.includes(table.table_name))
RECURSIVE getTablesFilter(_)
getTablesFilter(rows) ==
    IF Len(rows) = 0 THEN << >>
    ELSE IF rows[1] \in tablesToIgnore THEN getTablesFilter(Tail(rows))
    ELSE <<rows[1]>> \o getTablesFilter(Tail(rows))

\* the positions of the entries of a column map with the given key
KeyPositions(columns, name) == {i \in 1..Len(columns) : columns[i].name = name}

\* knex.table(tableName).columnInfo(): the map as the query returns it
columnInfoOf(rows) ==
    [i \in 1..Len(rows) |->
        [name |-> rows[i].name,
         info |-> [type |-> rows[i].type, defaultValue |-> rows[i].defaultValue,
                   nullable |-> rows[i].nullable, detailedInfo |-> NULL, index |-> NULL]]]

\* detailedInfo.forEach(columnDetailed =>
\*     columnsInfo[columnDetailed.column_name].detailedInfo = columnDetailed)
\* from row i on; assigning to a property of undefined throws
RECURSIVE mergeDetailed(_, _, _)
mergeDetailed(columns, detailedRows, i) ==
    IF i > Len(detailedRows) THEN [threw |-> NoThrow, columnsInfo |-> columns]
    ELSE IF KeyPositions(columns, detailedRows[i].column_name) = {}
    THEN [threw |-> TypeError, columnsInfo |-> columns]
    ELSE mergeDetailed(
             [columns EXCEPT ![Min(KeyPositions(columns, detailedRows[i].column_name))]
                                 .info.detailedInfo = Some(detailedRows[i])],
             detailedRows, i + 1)

\* the rest of getColumns once both queries have answered
getColumns(columns, detailedRows) == mergeDetailed(columns, detailedRows, 1)

\* an index row as getIndexes returns it: single, multiple and error are
\* not set yet
indexRowOf(row) ==
    [index_name |-> row.index_name, indexed_columns |-> row.indexed_columns,
     is_unique |-> row.is_unique, is_primary |-> row.is_primary,
     single |-> FALSE, multiple |-> FALSE, error |-> FALSE]

\* the callback of (await getIndexes(...)).map (lines 273-286) over the rows
\* from i on; done holds the rows already classified
\* the callback taking every index with at least one column for a composite
\* one
classifyStepAllMultiple(acc, index) ==
    [threw |-> NoThrow,
     warned |-> acc.warned,
     columnsInfo |-> acc.columnsInfo,
     indexes |-> Append(acc.indexes, [index EXCEPT !.multiple = TRUE])]

\* one call of the callback of (await getIndexes(...)).map (lines 273-286):
\* acc holds the column map, the rows classified so far and the warnings
classifyStep(acc, index) ==
    IF Len(index.indexed_columns) = 1
    THEN IF KeyPositions(acc.columnsInfo, StripDoubleQuotes(index.indexed_columns[1])) = {}
         THEN [threw |-> Warn[1],
               warned |-> acc.warned + Warn[2],
               columnsInfo |-> acc.columnsInfo,
               indexes |-> Append(acc.indexes, [index EXCEPT !.error = TRUE])]
         ELSE [threw |-> NoThrow,
               warned |-> acc.warned,
               columnsInfo |->
                   [acc.columnsInfo EXCEPT
                       ![Min(KeyPositions(acc.columnsInfo,
                                          StripDoubleQuotes(index.indexed_columns[1])))]
                           .info.index = Some([index EXCEPT !.single = TRUE])],
               indexes |-> Append(acc.indexes, [index EXCEPT !.single = TRUE])]
    ELSE [threw |-> NoThrow,
          warned |-> acc.warned,
          columnsInfo |-> acc.columnsInfo,
          indexes |-> Append(acc.indexes, [index EXCEPT !.multiple = TRUE])]

\* the map over the rows from i on; it stops at the first call that throws
RECURSIVE classifyFrom(_, _, _)
classifyFrom(rows, i, acc) ==
    IF i > Len(rows) \/ acc.threw # NoThrow THEN acc
    ELSE classifyFrom(rows, i + 1, classifyStep(acc, rows[i]))

classify(columns, rows) ==
    classifyFrom(rows, 1,
        [threw |-> NoThrow, warned |-> 0, columnsInfo |-> columns, indexes |-> << >>])

\* the source of migrations/index.js (lines 291-304)
indexFile(tableNames) ==
    Join([j \in 1..Len(tableNames) |->
             <<"const ", tableNames[j], " = require('./tables/create", tableNames[j], "');">>],
         <<"\n">>)
    \o <<"\n\nexports.up = async function (knex) {\n\tawait Promise.all([\n\t\t">>
    \o Join([j \in 1..Len(tableNames) |-> <<tableNames[j], ".up(knex),">>], <<"\n\t\t">>)
    \o <<"\n\t])\n};\n\nexports.down = async function (knex) {\n\tawait Promise.all([\n\t\t">>
    \o Join([j \in 1..Len(tableNames) |-> <<tableNames[j], ".down(knex),">>], <<"\n\t\t">>)
    \o <<"\n\t])\n};">>

\* `${process.cwd()}/migrations/tables/create${table.table_name}.js`
tablePath(tableName) == <<"migrations/tables/create", tableName, ".js">>

indexPath == <<"migrations/index.js">>

(***************************************************************************)
(* State.                                                                  *)
(*   arg, ret     the column handed to one of the column functions and    *)
(*                what the last call returned                              *)
(*   db           the catalog of the database the generator reads          *)
(*   gpc          where generate() stands                                  *)
(*   tables       what getTables() returned                                *)
(*   tpc          where the callback of tables.map stands, per table       *)
(*   columnsInfo  per table, the column map of getColumns with the         *)
(*                indexes attached by the classification                   *)
(*   indexes      per table, the index rows read, then classified          *)
(*   generated    per table, what singleTableGenerator returned            *)
(*   disk         the files under migrations/, path -> content or NULL     *)
(*   warnings     the warnings logged so far                               *)
(*   exitCode     NULL while the process runs, then its exit code          *)
(***************************************************************************)
VARIABLES arg, ret, db, gpc, tables, tpc, columnsInfo, indexes, generated, disk,
          warnings, exitCode,
          nodeEnv, lodash, logger, cwd, knexfile, globalKnex, destroyed, stack,
          statements, outcome, entry

vars == <<arg, ret, db, gpc, tables, tpc, columnsInfo, indexes, generated, disk,
          warnings, exitCode,
          nodeEnv, lodash, logger, cwd, knexfile, globalKnex, destroyed, stack,
          statements, outcome, entry>>

\* the state of index.js: process.env.NODE_ENV, whether the global scope
\* binds _, the logger, the knexfile in the working directory, the knexfile
\* once loaded, the connection handle of the module, and for every caller
\* the frames of its call, the operations of it that have ended, how it
\* ended, and what the state was when it was made
dbVars == <<nodeEnv, lodash, logger, cwd, knexfile, globalKnex, destroyed, stack,
            statements, outcome, entry>>

genVars == <<db, gpc, tables, tpc, columnsInfo, indexes, generated, disk,
             warnings, exitCode>>

(***************************************************************************)
(* The columns the column functions are applied to.                        *)
(***************************************************************************)
RawTypes == DOMAIN map \cup {"uuid", "bigint"}

SampleDefaults ==
    {<<"nextval", "(", Q, "a", Q, ":", ":", "a", ")">>,
     <<Q, "a", Q, ":", ":", "a">>,
     <<Q, "a", Q, ":", ":", "a", " ", "a">>,
     <<Q, "a", Q, ":", ":", "citext">>,
     <<Q, "a", BS, Q, "a", BS, Q, Q>>,
     <<Q, "a", BS, Q, "a", Q, ":", ":", "a">>,
     <<"a", ":", ":", "a">>,
     <<"nextval">>,
     <<"true">>, <<"false">>, <<"null">>,
     <<"0">>, <<"0", "1">>, <<"1", "0">>, <<"-", "0">>, <<"1", ".", "1", "0">>,
     <<" ", "1">>, <<"(", "-", "1", ")">>}

DefaultValues ==
    {NULL} \cup {Some(s) : s \in StringsUpTo(MaxDefaultLen) \cup SampleDefaults}

\* the rows information_schema.columns can hold for a column of a raw type
DetailedRows(type, columnName) ==
    LET row(len, prec) == [table_name |-> "users", column_name |-> columnName,
                           character_maximum_length |-> len, numeric_precision |-> prec]
    IN  CASE type = "character varying" -> {row(NULL, NULL), row(Some(255), NULL)}
          [] type = "numeric"           -> {row(NULL, NULL), row(NULL, Some(10))}
          [] type \in {"integer", "bigint"} -> {row(NULL, Some(32))}
          [] type = "real"              -> {row(NULL, Some(24))}
          [] OTHER                      -> {row(NULL, NULL)}

ColumnInputs ==
    UNION {
        {[type |-> type, defaultValue |-> dv, nullable |-> n,
          detailedInfo |-> det, index |-> NULL] :
            dv \in DefaultValues, n \in {FALSE},
            det \in {NULL} \cup {Some(r) : r \in DetailedRows(type, <<"a">>)}}
        : type \in RawTypes}

NoCall == [fn |-> "none"]

(***************************************************************************)
(* The column functions applied to a column.                               *)
(***************************************************************************)
CallGetType ==
    /\ ret' = [fn |-> "getType", out |-> getType(arg)]
    /\ UNCHANGED <<dbVars, arg, genVars>>

CallDefaults ==
    /\ ret' = [fn |-> "defaults", out |-> defaults(arg)]
    /\ UNCHANGED <<dbVars, arg, genVars>>

CallColumnClause ==
    /\ ret' = [fn |-> "columnClause", out |-> columnClause(<<"a">>, arg, FALSE)]
    /\ UNCHANGED <<dbVars, arg, genVars>>

CallSingleTableGenerator ==
    /\ ret' = [fn |-> "singleTableGenerator",
               out |-> singleTableGenerator("users", <<[name |-> <<"a">>, info |-> arg]>>, << >>)]
    /\ UNCHANGED <<dbVars, arg, genVars>>

\* the callers of the host
Callers == {"first", "second"}

NoOutcome == "none"

\* console
Console == {"log", "error", "warn"}

\* none of the functions of index.js is called
NoCalls ==
    /\ stack = [c \in Callers |-> << >>]
    /\ statements = [c \in Callers |-> << >>]
    /\ outcome = [c \in Callers |-> NoOutcome]
    /\ entry = [c \in Callers |-> NULL]

\* index.js is loaded and nothing of it is used
DbIdle ==
    /\ nodeEnv = NULL
    /\ lodash = FALSE
    /\ logger = Console
    /\ cwd = NULL
    /\ knexfile = NULL
    /\ globalKnex = NULL
    /\ destroyed = {}
    /\ NoCalls

GenIdle ==
    /\ db = << >>
    /\ gpc = "idle"
    /\ tables = << >>
    /\ tpc = << >>
    /\ columnsInfo = << >>
    /\ indexes = << >>
    /\ generated = << >>
    /\ disk = << >>
    /\ warnings = 0
    /\ exitCode = NULL

InitCol ==
    /\ arg \in ColumnInputs
    /\ ret = NoCall
    /\ GenIdle
    /\ DbIdle

NextCol ==
    \/ CallGetType
    \/ CallDefaults
    \/ CallColumnClause
    \/ CallSingleTableGenerator

SpecCol == InitCol /\ [][NextCol]_vars

(***************************************************************************)
(* The functions of index.js.  A call is followed from its entry to its    *)
(* end, step by step.  A frame that is `sync` is in the middle of a        *)
(* synchronous stretch: it has been called, or goes on without an await,   *)
(* and nothing else runs until it has taken its step.  The other steps are *)
(* those that end an awaited operation and run up to the next one; between *)
(* them the host may call other functions.  index.js binds no _ itself     *)
(* (lines 1-3): whether the global scope of the host does is part of the   *)
(* state.  A connection handle is an object: `destroyed` holds the objects *)
(* destroy() has ended well on.                                            *)
(***************************************************************************)
Production == Some("production")

\* database names, as texts
App == <<"app">>

Postgres == <<"postgres">>

\* Math.random().toString(36).substring(2)
Randoms == {"r1", "r2"}

\* `${originalDb}_copy_${random}`
CopyName(originalDb, random) == originalDb \o <<"_copy_", random>>

\* the environments the knexfile has a config for
ConfigEnvs == {"development", "test", "production"}

\* the values of process.env.NODE_ENV
NodeEnvs == {NULL, Some("test"), Some("production")}

\* the values of the env argument of a call
EnvValues == {NULL, Some("test"), Some("production"), Some("staging")}

\* the configs of one environment: dbConfig.client,
\* dbConfig.connection.database and dbConfig.originalDatabase
Configs ==
    {[client |-> "pg", database |-> Some(App), originalDatabase |-> Some(App)],
     [client |-> "pg", database |-> Some(CopyName(App, "r1")), originalDatabase |-> Some(App)],
     [client |-> "pg", database |-> Some(App), originalDatabase |-> NULL],
     [client |-> "pg", database |-> NULL, originalDatabase |-> NULL],
     [client |-> "mysql", database |-> Some(App), originalDatabase |-> Some(App)]}

\* the knexfiles in the working directory: every environment has the same
\* config
Knexfiles == {[e \in ConfigEnvs |-> dbConfig] : dbConfig \in Configs}

\* the pool the config carries itself
OwnPool == "config"

\* the handle objects the host has made itself
HostHandles == {"a", "b"}

\* the object Knex(...) returns at a place of the code (by), in the call of
\* a caller or for the module (of): each place is passed once in a call;
\* or an object of the host
HandleId(by, of) == [by |-> by, of |-> of]

\* Knex(config): a connection handle on the database the config names; two
\* handles of equal configuration are two objects
Knex(dbConfig, pool, id) ==
    [client |-> dbConfig.client, database |-> dbConfig.database, pool |-> pool,
     id |-> id]

\* the handles the host gives to setKnex: its own, of equal configuration
GivenHandles ==
    {Some(Knex([client |-> "mysql", database |-> Some(App)], OwnPool,
               HandleId("host", h))) : h \in HostHandles}

\* console, and a logger without methods
Loggers == {Console, {}}

\* _.defaults({pool: {min: 1, max: 1}}, dbConfig): the pool of the config
\* gives way to a pool of one connection
reducePoolToOne(dbConfig) == [config |-> dbConfig, pool |-> <<1, 1>>]

\* Knex(_reducePoolToOne(dbConfig))
Connect(dbConfig, id) ==
    Knex(reducePoolToOne(dbConfig).config, reducePoolToOne(dbConfig).pool, id)

\* what getKnexFile() returns and caches: the cached file, or the one
\* require finds in the working directory; NULL when require throws
getKnexFile == IF knexfile # NULL THEN knexfile ELSE cwd

\* what getKnexFile() throws when require throws: logger.error is called
\* first
getKnexFileError == IF "error" \in logger THEN "Error: knexfile" ELSE "TypeError"

\* getKnexFile()[env]
ConfigOf(env) ==
    IF env # NULL /\ Val(env) \in DOMAIN Val(getKnexFile)
    THEN Some(Val(getKnexFile)[Val(env)])
    ELSE NULL

\* dbConfig.connection.database = database, in the config of env
SetDatabase(file, env, database) ==
    Some([Val(file) EXCEPT ![Val(env)].database = database])

\* the database a connection without selected database is made on
NoDatabaseOf(dbConfig) ==
    IF dbConfig.client = "pg" THEN Some(Postgres) ELSE NULL

\* process.env.NODE_ENV || 'development'
NodeEnvOrDevelopment == IF nodeEnv = NULL THEN Some("development") ELSE nodeEnv

\* getKnex(), lines 31-40: whether it throws, given whether Knex makes the
\* handle
getKnexThrows(made) ==
    /\ globalKnex = NULL
    /\ \/ getKnexFile = NULL
       \/ ConfigOf(NodeEnvOrDevelopment) = NULL
       \/ ~made

getKnexError ==
    IF getKnexFile = NULL THEN getKnexFileError
    ELSE IF ConfigOf(NodeEnvOrDevelopment) = NULL THEN "TypeError"
    ELSE "Error: Knex"

\* getKnex(), lines 31-40: the handle of the module, made on the config of
\* NODE_ENV (or development) when there is none
getKnex ==
    IF globalKnex # NULL THEN globalKnex
    ELSE Some(Knex(Val(ConfigOf(NodeEnvOrDevelopment)), OwnPool,
                   HandleId("getKnex:36", "module")))

\* the knexfile after getKnex(): loaded when the handle had to be made
getKnexLoads == IF globalKnex # NULL THEN knexfile ELSE getKnexFile

\* the frame of a call
Frame(fn, env) ==
    [fn |-> fn, pc |-> "enter", sync |-> TRUE, env |-> env, dbName |-> NULL,
     knex |-> NULL, result |-> NULL, oldDbName |-> NULL, newDbName |-> NULL,
     opts |-> {}, pending |-> << >>]

Top(c) == stack[c][Len(stack[c])]

\* the frame in the middle of a synchronous stretch, if any, is of c
Busy(c) == stack[c] # << >> /\ Top(c).sync

At(c, fn, pc) ==
    /\ stack[c] # << >>
    /\ \A d \in Callers \ {c} : ~Busy(d)
    /\ Top(c).fn = fn
    /\ Top(c).pc = pc

\* the frame awaits an operation and resumes at pc
Wait(frame, pc) == [frame EXCEPT !.pc = pc, !.sync = FALSE]

\* the frame goes on at pc without an await
Cont(frame, pc) == [frame EXCEPT !.pc = pc, !.sync = TRUE]

\* the running function goes on as frame
Goto(c, frame) ==
    /\ stack' = [stack EXCEPT ![c][Len(stack[c])] = frame]
    /\ UNCHANGED outcome

\* the running function throws: no caller catches, the call ends
Throw(c, error) ==
    /\ stack' = [stack EXCEPT ![c] = << >>]
    /\ outcome' = [outcome EXCEPT ![c] = error]

\* the running function returns value to its caller
Return(c, value) ==
    IF Len(stack[c]) = 1
    THEN /\ stack' = [stack EXCEPT ![c] = << >>]
         /\ outcome' = [outcome EXCEPT ![c] = "returned"]
    ELSE /\ stack' = [stack EXCEPT ![c] =
                         [SubSeq(stack[c], 1, Len(stack[c]) - 1) EXCEPT
                             ![Len(stack[c]) - 1].result = value]]
         /\ UNCHANGED outcome

\* the running function calls callee and awaits it at pc
Await(c, frame, pc, callee) ==
    /\ stack' = [stack EXCEPT ![c] =
                    Append([stack[c] EXCEPT ![Len(stack[c])] = Wait(frame, pc)], callee)]
    /\ UNCHANGED outcome

\* an operation on the database (knex.raw and the like) has ended
Raw(c, sql, database) ==
    statements' = [statements EXCEPT ![c] =
                      Append(statements[c], [sql |-> sql, database |-> database])]

\* destroy() has ended well on the object that handle is
Destroyed(handle) == handle # NULL /\ Val(handle).id \in destroyed

\* an awaited operation ends, well or not
Outcomes == BOOLEAN

\* the functions the host calls and awaits
AsyncFunctions ==
    {"dropDb", "createDb", "recreateDb", "refreshDb", "copyDb", "copyDbForTest",
     "rollbackCopyDbForTest", "resetPgSequences", "seedFolder", "addColumn",
     "updateColumnInBatch"}

\* the arguments a function is called with, besides env: for createDb
\* {migrate}, for addColumn {updateInBatch, index, indexConcurrent}, for
\* seedFolder whether it is called as a method of the module
OptsOf(fn) ==
    CASE fn = "createDb" -> {{}, {"migrate"}}
      [] fn = "addColumn" -> {{}, {"updateInBatch"}, {"index"},
                              {"updateInBatch", "index", "indexConcurrent"}}
      [] fn = "seedFolder" -> {{}, {"method"}}
      [] OTHER -> {{}}

\* the functions that take no env and work on the handle of the module
OnHandle == {"resetPgSequences", "seedFolder", "addColumn", "updateColumnInBatch"}

EnvsOf(fn) == IF fn \in OnHandle THEN {NULL} ELSE EnvValues

\* no frame is in the middle of a synchronous stretch
Quiet == \A c \in Callers : ~Busy(c)

\* the functions two calls of which are followed side by side: those that
\* switch the database name of the shared config for the time of their
\* statements
Overlapping == {"dropDb", "createDb"}

\* the functions caller c may call: the second call is made while a first
\* call of one of these functions is pending, or after it
CallableBy(c) ==
    IF c = "first" THEN AsyncFunctions
    ELSE IF entry["first"] # NULL /\ Val(entry["first"]).fn \in Overlapping
    THEN Overlapping
    ELSE {}

\* the host calls one of the functions; the second call is made for the
\* environment of the first, whose config the two calls share, and without
\* options
Invoke(c) ==
    /\ Quiet
    /\ entry[c] = NULL
    /\ \E fn \in CallableBy(c) :
       \E env \in IF c = "first" THEN EnvsOf(fn) ELSE {Val(entry["first"]).env},
          opts \in IF c = "first" THEN OptsOf(fn) ELSE {{}},
          newDbName \in {App, CopyName(App, "r2")} :
        /\ newDbName # App => fn = "copyDb"
        /\ stack' = [stack EXCEPT ![c] =
                        << [Frame(fn, env) EXCEPT
                              !.opts = opts,
                              !.oldDbName = IF fn = "copyDb" THEN Some(App) ELSE NULL,
                              !.newDbName = IF fn = "copyDb" THEN Some(newDbName) ELSE NULL] >>]
        /\ entry' = [entry EXCEPT ![c] =
                        Some([fn |-> fn, env |-> env, knexfile |-> getKnexFile])]
    /\ UNCHANGED <<destroyed, nodeEnv, lodash, logger, cwd, knexfile, globalKnex, statements, outcome>>
    /\ UNCHANGED <<arg, ret, genVars>>

\* setKnex, lines 24-26
setKnex ==
    /\ Quiet
    /\ \E knex \in GivenHandles :
         /\ knex # globalKnex
         /\ globalKnex' = knex
    /\ UNCHANGED <<destroyed, nodeEnv, lodash, logger, cwd, knexfile, stack, statements, outcome, entry>>
    /\ UNCHANGED <<arg, ret, genVars>>

\* setLogger, lines 45-47
setLogger ==
    /\ Quiet
    /\ \E loggerInstance \in Loggers :
         /\ loggerInstance # logger
         /\ logger' = loggerInstance
    /\ UNCHANGED <<destroyed, nodeEnv, lodash, cwd, knexfile, globalKnex, stack, statements, outcome, entry>>
    /\ UNCHANGED <<arg, ret, genVars>>

\* the host calls getKnexFile(), lines 9-19
HostGetKnexFile ==
    /\ Quiet
    /\ knexfile = NULL
    /\ knexfile' = getKnexFile
    /\ UNCHANGED <<destroyed, nodeEnv, lodash, logger, cwd, globalKnex, stack, statements, outcome, entry>>
    /\ UNCHANGED <<arg, ret, genVars>>

\* the host calls getKnex(), lines 31-40
HostGetKnex ==
    /\ Quiet
    /\ globalKnex = NULL
    /\ \E made \in BOOLEAN :
         /\ knexfile' = getKnexLoads
         /\ globalKnex' = IF getKnexThrows(made) THEN globalKnex ELSE getKnex
    /\ UNCHANGED <<destroyed, nodeEnv, lodash, logger, cwd, stack, statements, outcome, entry>>
    /\ UNCHANGED <<arg, ret, genVars>>

\* getKnex() in the running function, which goes on as frame with the
\* handle as its knex
GetKnex(c, frame) ==
    \E made \in BOOLEAN :
        /\ knexfile' = getKnexLoads
        /\ IF getKnexThrows(made)
           THEN Throw(c, getKnexError) /\ UNCHANGED globalKnex
           ELSE /\ globalKnex' = getKnex
                /\ Goto(c, [frame EXCEPT !.knex = getKnex])

\* logger.log(...) throws
NoLog == "log" \notin logger

\* what the steps of index.js leave alone besides the state of index.js
hostEnv == <<nodeEnv, lodash, logger, cwd>>

elsewhere == <<arg, ret, genVars>>

\* dbConfig.connection.database = database; knex = Knex(_reducePoolToOne(
\* dbConfig)) in the running function, which goes on as frame when the
\* handle is made; the switch is left in place when _ is not bound or Knex
\* throws
SwitchAndConnect(c, database, frame, place) ==
    \E made \in BOOLEAN :
        /\ knexfile' = SetDatabase(getKnexFile, frame.env, database)
        /\ IF ~lodash
           THEN Throw(c, "ReferenceError")
           ELSE IF ~made
           THEN Throw(c, "Error: Knex")
           ELSE Goto(c, [frame EXCEPT
                           !.knex = Some(Connect([Val(ConfigOf(frame.env)) EXCEPT
                                                     !.database = database],
                                                 HandleId(place, c)))])

\* dropDb: one disjunct for each stretch of its code between two awaits
dropDb(c) ==
    \* dropDb, lines 183-228: the guards, the switch of the database name, the
    \* connection, the restoration of the name and the call of the first
    \* statement
    \/ /\ At(c, "dropDb", "enter")
       /\ IF nodeEnv = Production \/ Top(c).env = Production
          THEN Throw(c, "Error: production") /\ UNCHANGED knexfile
          ELSE IF getKnexFile = NULL
          THEN Throw(c, getKnexFileError) /\ UNCHANGED knexfile
          ELSE IF ConfigOf(Top(c).env) = NULL
          THEN Throw(c, "Error: no config") /\ knexfile' = getKnexFile
          ELSE IF Val(ConfigOf(Top(c).env)).database = NULL
          THEN Throw(c, "Error: no database name") /\ knexfile' = getKnexFile
          ELSE LET dbConfig == Val(ConfigOf(Top(c).env))
                   dbName == dbConfig.database
                   switched == SetDatabase(getKnexFile, Top(c).env, NoDatabaseOf(dbConfig))
               IN  \E made \in BOOLEAN :
                     IF ~lodash \/ ~made
                     THEN /\ knexfile' = switched
                          /\ Throw(c, IF ~lodash THEN "ReferenceError" ELSE "Error: Knex")
                     ELSE /\ knexfile' = SetDatabase(switched, Top(c).env, dbName)
                          /\ Goto(c, Wait([Top(c) EXCEPT
                                             !.dbName = dbName,
                                             !.knex = Some(Connect(Val(switched)[Val(Top(c).env)],
                                                                   HandleId("dropDb:210", c)))],
                                          IF dbConfig.client = "pg" THEN "alter" ELSE "drop"))
       /\ UNCHANGED <<hostEnv, destroyed, globalKnex, statements, entry, elsewhere>>
    \* dropDb, line 217: ALTER DATABASE ... CONNECTION LIMIT 1 ends; an error is
    \* caught and ignored
    \/ /\ At(c, "dropDb", "alter")
       /\ Raw(c, "ALTER DATABASE", Top(c).dbName)
       /\ \E ok \in Outcomes :
            Goto(c, Wait(Top(c), IF ok THEN "terminate" ELSE "drop"))
       /\ UNCHANGED <<hostEnv, destroyed, knexfile, globalKnex, entry, elsewhere>>
    \* dropDb, lines 218-226: SELECT pg_terminate_backend ends; an error is
    \* caught and ignored
    \/ /\ At(c, "dropDb", "terminate")
       /\ Raw(c, "SELECT pg_terminate_backend", Top(c).dbName)
       /\ Goto(c, Wait(Top(c), "drop"))
       /\ UNCHANGED <<hostEnv, destroyed, knexfile, globalKnex, entry, elsewhere>>
    \* dropDb, line 228: DROP DATABASE IF EXISTS ends
    \/ /\ At(c, "dropDb", "drop")
       /\ Raw(c, "DROP DATABASE IF EXISTS", Top(c).dbName)
       /\ \E ok \in Outcomes :
            IF ok
            THEN Goto(c, Wait(Top(c), "destroy"))
            ELSE Throw(c, "Error: statement")
       /\ UNCHANGED <<hostEnv, destroyed, knexfile, globalKnex, entry, elsewhere>>
    \* dropDb, line 229: knex.destroy() ends
    \/ /\ At(c, "dropDb", "destroy")
       /\ \E ok \in Outcomes :
            IF ok THEN Return(c, NULL) ELSE Throw(c, "Error: destroy")
       /\ UNCHANGED <<hostEnv, destroyed, knexfile, globalKnex, statements, entry, elsewhere>>

\* createDb, lines 262-264: logger.log, the restoration of the name and the
\* call of knex.destroy()
createDbCreated(c) ==
    IF NoLog
    THEN Throw(c, "TypeError") /\ UNCHANGED knexfile
    ELSE /\ knexfile' = SetDatabase(knexfile, Top(c).env, Top(c).dbName)
         /\ Goto(c, Wait(Top(c), "destroy"))

\* createDb: one disjunct for each stretch of its code between two awaits
createDb(c) ==
    \* createDb, lines 235-249 and 257-260: the switch of the database name,
    \* the connection and the call of the first statement; there is no guard
    \/ /\ At(c, "createDb", "enter")
       /\ IF getKnexFile = NULL
          THEN Throw(c, getKnexFileError) /\ UNCHANGED knexfile
          ELSE IF ConfigOf(Top(c).env) = NULL
          THEN Throw(c, "TypeError") /\ knexfile' = getKnexFile
          ELSE LET dbConfig == Val(ConfigOf(Top(c).env))
               IN  SwitchAndConnect(c, NoDatabaseOf(dbConfig),
                                    Wait([Top(c) EXCEPT !.dbName = dbConfig.database],
                                         IF dbConfig.client = "pg"
                                         THEN "select" ELSE "createIfNotExists"),
                                    IF dbConfig.client = "pg"
                                    THEN "createDb:247" ELSE "createDb:259")
       /\ UNCHANGED <<hostEnv, destroyed, globalKnex, statements, entry, elsewhere>>
    \* createDb, lines 249-255 and 262-264: SELECT 1 FROM pg_database ends
    \/ /\ At(c, "createDb", "select")
       /\ Raw(c, "SELECT 1 FROM pg_database", Top(c).dbName)
       /\ \E ok \in Outcomes, rowCount \in {0, 1} :
            IF ~ok
            THEN Throw(c, "Error: statement") /\ UNCHANGED knexfile
            ELSE IF rowCount = 0
            THEN Goto(c, Wait(Top(c), "create")) /\ UNCHANGED knexfile
            ELSE createDbCreated(c)
       /\ UNCHANGED <<hostEnv, destroyed, globalKnex, entry, elsewhere>>
    \* createDb, lines 251 and 262-264: CREATE DATABASE ends
    \/ /\ At(c, "createDb", "create")
       /\ Raw(c, "CREATE DATABASE", Top(c).dbName)
       /\ \E ok \in Outcomes :
            IF ok
            THEN createDbCreated(c)
            ELSE Throw(c, "Error: statement") /\ UNCHANGED knexfile
       /\ UNCHANGED <<hostEnv, destroyed, globalKnex, entry, elsewhere>>
    \* createDb, lines 260-264: CREATE DATABASE IF NOT EXISTS ends
    \/ /\ At(c, "createDb", "createIfNotExists")
       /\ Raw(c, "CREATE DATABASE IF NOT EXISTS", Top(c).dbName)
       /\ \E ok \in Outcomes :
            IF ok
            THEN createDbCreated(c)
            ELSE Throw(c, "Error: statement") /\ UNCHANGED knexfile
       /\ UNCHANGED <<hostEnv, destroyed, globalKnex, entry, elsewhere>>
    \* createDb, lines 264-268: knex.destroy() ends; with migrate, getKnex()
    \* and the call of knex.migrate.latest()
    \/ /\ At(c, "createDb", "destroy")
       /\ \E ok \in Outcomes :
            IF ~ok
            THEN Throw(c, "Error: destroy") /\ UNCHANGED <<knexfile, globalKnex>>
            ELSE IF "migrate" \in Top(c).opts
            THEN GetKnex(c, Wait(Top(c), "migrate"))
            ELSE Return(c, NULL) /\ UNCHANGED <<knexfile, globalKnex>>
       /\ UNCHANGED <<hostEnv, destroyed, statements, entry, elsewhere>>
    \* createDb, line 268: knex.migrate.latest() ends
    \/ /\ At(c, "createDb", "migrate")
       /\ Raw(c, "migrate.latest", Val(Top(c).knex).database)
       /\ \E ok \in Outcomes :
            IF ok THEN Return(c, NULL) ELSE Throw(c, "Error: migration")
       /\ UNCHANGED <<hostEnv, destroyed, knexfile, globalKnex, entry, elsewhere>>

\* handle.destroy() has ended well: the object globalKnex was when destroy
\* was called is destroyed, whatever globalKnex is by now
AfterDestroy(handle) == destroyed \cup {Val(handle).id}

\* recreateDb: one disjunct for each stretch of its code between two awaits
recreateDb(c) ==
    \* recreateDb, lines 276-279: the config is read, logger.log and the call
    \* of dropDb(env)
    \/ /\ At(c, "recreateDb", "enter")
       /\ knexfile' = getKnexFile
       /\ IF getKnexFile = NULL
          THEN Throw(c, getKnexFileError)
          ELSE IF ConfigOf(Top(c).env) = NULL \/ NoLog
          THEN Throw(c, "TypeError")
          ELSE Await(c, Top(c), "createDb", Frame("dropDb", Top(c).env))
       /\ UNCHANGED <<hostEnv, destroyed, globalKnex, statements, entry, elsewhere>>
    \* recreateDb, line 280: dropDb has returned, createDb(env) is called
    \/ /\ At(c, "recreateDb", "createDb")
       /\ Await(c, Top(c), "created", Frame("createDb", Top(c).env))
       /\ UNCHANGED <<hostEnv, destroyed, knexfile, globalKnex, statements, entry, elsewhere>>
    \* recreateDb, lines 282-286: createDb has returned; the name is read and
    \* written back, and the handle of the module, if any, is destroyed
    \/ /\ At(c, "recreateDb", "created")
       /\ knexfile' = SetDatabase(knexfile, Top(c).env, Val(ConfigOf(Top(c).env)).database)
       /\ Goto(c, IF globalKnex # NULL
                  THEN Wait([Top(c) EXCEPT !.dbName = Val(ConfigOf(Top(c).env)).database,
                                           !.knex = globalKnex],
                            "destroyGlobal")
                  ELSE Cont([Top(c) EXCEPT !.dbName = Val(ConfigOf(Top(c).env)).database],
                            "replace"))
       /\ UNCHANGED <<hostEnv, destroyed, globalKnex, statements, entry, elsewhere>>
    \* recreateDb, line 286: globalKnex.destroy() ends
    \/ /\ At(c, "recreateDb", "destroyGlobal")
       /\ \E ok \in Outcomes :
            IF ok
            THEN /\ destroyed' = AfterDestroy(Top(c).knex)
                 /\ Goto(c, Cont(Top(c), "replace"))
            ELSE Throw(c, "Error: destroy") /\ UNCHANGED destroyed
       /\ UNCHANGED <<hostEnv, knexfile, globalKnex, statements, entry, elsewhere>>
    \* recreateDb, lines 287-291: the handle of the module is replaced and the
    \* name recorded as the original one
    \/ /\ At(c, "recreateDb", "replace")
       /\ \E made \in BOOLEAN :
            IF made
            THEN /\ globalKnex' = Some(Knex(Val(ConfigOf(Top(c).env)), OwnPool,
                                            HandleId("recreateDb:287", c)))
                 /\ knexfile' = Some([Val(SetDatabase(knexfile, Top(c).env, Top(c).dbName))
                                        EXCEPT ![Val(Top(c).env)].originalDatabase = Top(c).dbName])
                 /\ Return(c, Some(Knex(Val(ConfigOf(Top(c).env)), OwnPool,
                                        HandleId("recreateDb:287", c))))
            ELSE Throw(c, "Error: Knex") /\ UNCHANGED <<globalKnex, knexfile>>
       /\ UNCHANGED <<hostEnv, destroyed, statements, entry, elsewhere>>

\* refreshDb: one disjunct for each stretch of its code between two awaits
refreshDb(c) ==
    \* refreshDb, line 405: recreateDb(env) is called
    \/ /\ At(c, "refreshDb", "enter")
       /\ Await(c, Top(c), "recreated", Frame("recreateDb", Top(c).env))
       /\ UNCHANGED <<hostEnv, destroyed, knexfile, globalKnex, statements, entry, elsewhere>>
    \* refreshDb, lines 405-408: recreateDb has returned the handle;
    \* knex.migrate.latest() is called
    \/ /\ At(c, "refreshDb", "recreated")
       /\ Goto(c, Wait([Top(c) EXCEPT !.knex = Top(c).result], "migrate"))
       /\ UNCHANGED <<hostEnv, destroyed, knexfile, globalKnex, statements, entry, elsewhere>>
    \* refreshDb, lines 408-410: knex.migrate.latest() ends; logger.log and the
    \* call of knex.seed.run()
    \/ /\ At(c, "refreshDb", "migrate")
       /\ Raw(c, "migrate.latest", Val(Top(c).knex).database)
       /\ \E ok \in Outcomes :
            IF ~ok
            THEN Throw(c, "Error: migration")
            ELSE IF NoLog
            THEN Throw(c, "TypeError")
            ELSE Goto(c, Wait(Top(c), "seed"))
       /\ UNCHANGED <<hostEnv, destroyed, knexfile, globalKnex, entry, elsewhere>>
    \* refreshDb, lines 410-413: knex.seed.run() ends; logger.log and the
    \* return of the handle
    \/ /\ At(c, "refreshDb", "seed")
       /\ Raw(c, "seed.run", Val(Top(c).knex).database)
       /\ \E ok \in Outcomes :
            IF ~ok
            THEN Throw(c, "Error: seed")
            ELSE IF NoLog
            THEN Throw(c, "TypeError")
            ELSE Return(c, Top(c).knex)
       /\ UNCHANGED <<hostEnv, destroyed, knexfile, globalKnex, entry, elsewhere>>

\* if (!env) env = process.env.NODE_ENV
EnvOrNodeEnv(env) == IF env = NULL THEN nodeEnv ELSE env

\* copyDb: one disjunct for each stretch of its code between two awaits
copyDb(c) ==
    \* copyDb, lines 297-313: the guards, and the call of globalKnex.destroy()
    \* when the module has a handle
    \/ /\ At(c, "copyDb", "enter")
       /\ IF EnvOrNodeEnv(Top(c).env) = Production
          THEN Throw(c, "Error: production") /\ UNCHANGED knexfile
          ELSE IF getKnexFile = NULL
          THEN Throw(c, getKnexFileError) /\ UNCHANGED knexfile
          ELSE /\ knexfile' = getKnexFile
               /\ IF ConfigOf(EnvOrNodeEnv(Top(c).env)) = NULL
                  THEN Throw(c, "Error: no config")
                  ELSE IF Top(c).oldDbName = Top(c).newDbName
                  THEN Throw(c, "Error: same database")
                  ELSE Goto(c, IF globalKnex # NULL
                               THEN Wait([Top(c) EXCEPT !.env = EnvOrNodeEnv(Top(c).env),
                                                        !.knex = globalKnex],
                                         "destroyGlobal")
                               ELSE Cont([Top(c) EXCEPT !.env = EnvOrNodeEnv(Top(c).env)],
                                         "connect"))
       /\ UNCHANGED <<hostEnv, destroyed, globalKnex, statements, entry, elsewhere>>
    \* copyDb, line 313: globalKnex.destroy() ends
    \/ /\ At(c, "copyDb", "destroyGlobal")
       /\ \E ok \in Outcomes :
            IF ok
            THEN /\ destroyed' = AfterDestroy(Top(c).knex)
                 /\ Goto(c, Cont(Top(c), "connect"))
            ELSE Throw(c, "Error: destroy") /\ UNCHANGED destroyed
       /\ UNCHANGED <<hostEnv, knexfile, globalKnex, statements, entry, elsewhere>>
    \* copyDb, lines 315-321: the database name is switched to postgres, the
    \* connection made, logger.log, and the first statement called
    \/ /\ At(c, "copyDb", "connect")
       /\ IF lodash /\ NoLog
          THEN \E made \in BOOLEAN :
                 /\ knexfile' = SetDatabase(knexfile, Top(c).env, Some(Postgres))
                 /\ Throw(c, IF made THEN "TypeError" ELSE "Error: Knex")
          ELSE SwitchAndConnect(c, Some(Postgres), Wait(Top(c), "terminate"), "copyDb:317")
       /\ UNCHANGED <<hostEnv, destroyed, globalKnex, statements, entry, elsewhere>>
    \* copyDb, lines 321-325: SELECT pg_terminate_backend ends
    \/ /\ At(c, "copyDb", "terminate")
       /\ Raw(c, "SELECT pg_terminate_backend", Top(c).oldDbName)
       /\ \E ok \in Outcomes :
            IF ok
            THEN Goto(c, Wait(Top(c), "copy"))
            ELSE Throw(c, "Error: statement")
       /\ UNCHANGED <<hostEnv, destroyed, knexfile, globalKnex, entry, elsewhere>>
    \* copyDb, lines 328-334: CREATE DATABASE ... WITH TEMPLATE ends
    \/ /\ At(c, "copyDb", "copy")
       /\ Raw(c, "CREATE DATABASE WITH TEMPLATE", Top(c).newDbName)
       /\ \E ok \in Outcomes :
            IF ok
            THEN Goto(c, Wait(Top(c), "destroy"))
            ELSE Throw(c, "Error: statement")
       /\ UNCHANGED <<hostEnv, destroyed, knexfile, globalKnex, entry, elsewhere>>
    \* copyDb, lines 334-338: knex.destroy() ends; the config is pointed at the
    \* new database and the handle of the module replaced
    \/ /\ At(c, "copyDb", "destroy")
       /\ \E ok \in Outcomes, made \in BOOLEAN :
            IF ~ok
            THEN Throw(c, "Error: destroy") /\ UNCHANGED <<knexfile, globalKnex>>
            ELSE /\ knexfile' = SetDatabase(knexfile, Top(c).env, Top(c).newDbName)
                 /\ IF made
                    THEN /\ globalKnex' = Some(Knex([Val(ConfigOf(Top(c).env)) EXCEPT
                                                        !.database = Top(c).newDbName],
                                                    OwnPool, HandleId("copyDb:337", c)))
                         /\ Return(c, Some(Knex([Val(ConfigOf(Top(c).env)) EXCEPT
                                                    !.database = Top(c).newDbName],
                                                OwnPool, HandleId("copyDb:337", c))))
                    ELSE Throw(c, "Error: Knex") /\ UNCHANGED globalKnex
       /\ UNCHANGED <<hostEnv, destroyed, statements, entry, elsewhere>>

\* copyDbForTest: one disjunct for each stretch of its code between two awaits
copyDbForTest(c) ==
    \* copyDbForTest, lines 344-363: the guards, the name of the copy, and the
    \* call of copyDb
    \/ /\ At(c, "copyDbForTest", "enter")
       /\ IF EnvOrNodeEnv(Top(c).env) = Production
          THEN Throw(c, "Error: production") /\ UNCHANGED knexfile
          ELSE IF getKnexFile = NULL
          THEN Throw(c, getKnexFileError) /\ UNCHANGED knexfile
          ELSE /\ knexfile' = getKnexFile
               /\ IF ConfigOf(EnvOrNodeEnv(Top(c).env)) = NULL
                  THEN Throw(c, "Error: no config")
                  ELSE IF Val(ConfigOf(EnvOrNodeEnv(Top(c).env))).originalDatabase = NULL
                  THEN Throw(c, "Error: no original database")
                  ELSE \E random \in Randoms :
                         Await(c, Top(c), "return",
                               [Frame("copyDb", EnvOrNodeEnv(Top(c).env)) EXCEPT
                                  !.oldDbName =
                                      Val(ConfigOf(EnvOrNodeEnv(Top(c).env))).originalDatabase,
                                  !.newDbName = Some(CopyName(
                                      Val(Val(ConfigOf(EnvOrNodeEnv(Top(c).env))).originalDatabase),
                                      random))])
       /\ UNCHANGED <<hostEnv, destroyed, globalKnex, statements, entry, elsewhere>>
    \* copyDbForTest, line 363: copyDb has returned the handle
    \/ /\ At(c, "copyDbForTest", "return")
       /\ Return(c, Top(c).result)
       /\ UNCHANGED <<hostEnv, destroyed, knexfile, globalKnex, statements, entry, elsewhere>>

\* rollbackCopyDbForTest: one disjunct for each stretch of its code between two awaits
rollbackCopyDbForTest(c) ==
    \* rollbackCopyDbForTest, lines 369-392: the guards; nothing is done when
    \* the config is on its original database; else globalKnex.destroy() is
    \* called when the module has a handle
    \/ /\ At(c, "rollbackCopyDbForTest", "enter")
       /\ IF EnvOrNodeEnv(Top(c).env) = Production
          THEN Throw(c, "Error: production") /\ UNCHANGED knexfile
          ELSE IF getKnexFile = NULL
          THEN Throw(c, getKnexFileError) /\ UNCHANGED knexfile
          ELSE /\ knexfile' = getKnexFile
               /\ IF ConfigOf(EnvOrNodeEnv(Top(c).env)) = NULL
                  THEN Throw(c, "Error: no config")
                  ELSE IF Val(ConfigOf(EnvOrNodeEnv(Top(c).env))).originalDatabase = NULL
                  THEN Throw(c, "Error: no original database")
                  ELSE IF Val(ConfigOf(EnvOrNodeEnv(Top(c).env))).database
                            = Val(ConfigOf(EnvOrNodeEnv(Top(c).env))).originalDatabase
                  THEN Return(c, globalKnex)
                  ELSE Goto(c,
                         IF globalKnex # NULL
                         THEN Wait([Top(c) EXCEPT
                                      !.env = EnvOrNodeEnv(Top(c).env),
                                      !.dbName = Val(ConfigOf(EnvOrNodeEnv(Top(c).env))).originalDatabase,
                                      !.knex = globalKnex],
                                   "destroyGlobal")
                         ELSE Cont([Top(c) EXCEPT
                                      !.env = EnvOrNodeEnv(Top(c).env),
                                      !.dbName = Val(ConfigOf(EnvOrNodeEnv(Top(c).env))).originalDatabase],
                                   "dropDb"))
       /\ UNCHANGED <<hostEnv, destroyed, globalKnex, statements, entry, elsewhere>>
    \* rollbackCopyDbForTest, line 392: globalKnex.destroy() ends
    \/ /\ At(c, "rollbackCopyDbForTest", "destroyGlobal")
       /\ \E ok \in Outcomes :
            IF ok
            THEN /\ destroyed' = AfterDestroy(Top(c).knex)
                 /\ Goto(c, Cont(Top(c), "dropDb"))
            ELSE Throw(c, "Error: destroy") /\ UNCHANGED destroyed
       /\ UNCHANGED <<hostEnv, knexfile, globalKnex, statements, entry, elsewhere>>
    \* rollbackCopyDbForTest, line 394: dropDb(env) is called
    \/ /\ At(c, "rollbackCopyDbForTest", "dropDb")
       /\ Await(c, Top(c), "dropped", Frame("dropDb", Top(c).env))
       /\ UNCHANGED <<hostEnv, destroyed, knexfile, globalKnex, statements, entry, elsewhere>>
    \* rollbackCopyDbForTest, lines 396-398: dropDb has returned; the config is
    \* pointed at the original database and the handle of the module replaced
    \/ /\ At(c, "rollbackCopyDbForTest", "dropped")
       /\ knexfile' = SetDatabase(knexfile, Top(c).env, Top(c).dbName)
       /\ \E made \in BOOLEAN :
            IF made
            THEN /\ globalKnex' = Some(Knex([Val(ConfigOf(Top(c).env)) EXCEPT
                                                !.database = Top(c).dbName],
                                            OwnPool, HandleId("rollbackCopyDbForTest:397", c)))
                 /\ Return(c, Some(Knex([Val(ConfigOf(Top(c).env)) EXCEPT
                                            !.database = Top(c).dbName],
                                        OwnPool, HandleId("rollbackCopyDbForTest:397", c))))
            ELSE Throw(c, "Error: Knex") /\ UNCHANGED globalKnex
       /\ UNCHANGED <<hostEnv, destroyed, statements, entry, elsewhere>>

\* the rows of the query that lists the statements fixing the sequences
SequenceQueries == {<< >>, <<"SELECT SETVAL">>, <<"SELECT SETVAL", "SELECT SETVAL">>}

\* resetPgSequences: one disjunct for each stretch of its code between two awaits
resetPgSequences(c) ==
    \* resetPgSequences, lines 63-90: getKnex(); nothing is done on a client
    \* other than pg; else the listing query is called
    \/ /\ At(c, "resetPgSequences", "enter")
       /\ \E made \in BOOLEAN :
            /\ knexfile' = getKnexLoads
            /\ IF getKnexThrows(made)
               THEN Throw(c, getKnexError) /\ UNCHANGED globalKnex
               ELSE /\ globalKnex' = getKnex
                    /\ IF Val(getKnex).client # "pg"
                       THEN Return(c, NULL)
                       ELSE Goto(c, Wait([Top(c) EXCEPT !.knex = getKnex], "queries"))
       /\ UNCHANGED <<hostEnv, destroyed, statements, entry, elsewhere>>
    \* resetPgSequences, lines 73-92: the listing query ends; every statement
    \* it lists is called
    \/ /\ At(c, "resetPgSequences", "queries")
       /\ Raw(c, "SELECT 'SELECT SETVAL(' ...", Val(Top(c).knex).database)
       /\ \E ok \in Outcomes, rows \in SequenceQueries :
            IF ok
            THEN Goto(c, Wait([Top(c) EXCEPT !.pending = rows], "all"))
            ELSE Throw(c, "Error: statement")
       /\ UNCHANGED <<hostEnv, destroyed, knexfile, globalKnex, entry, elsewhere>>
    \* resetPgSequences, line 92: one of the listed statements ends; when it
    \* fails Promise.all rejects and the function throws, while the statements
    \* still pending go on
    \/ /\ At(c, "resetPgSequences", "all")
       /\ Top(c).pending # << >>
       /\ Raw(c, Head(Top(c).pending), Val(Top(c).knex).database)
       /\ \E ok \in Outcomes :
            IF ok
            THEN Goto(c, Wait([Top(c) EXCEPT !.pending = Tail(Top(c).pending)], "all"))
            ELSE IF Tail(Top(c).pending) = << >>
            THEN Throw(c, "Error: statement")
            ELSE /\ stack' = [stack EXCEPT ![c] =
                                 << Wait([Top(c) EXCEPT !.pending = Tail(Top(c).pending)],
                                         "rejected") >>]
                 /\ outcome' = [outcome EXCEPT ![c] = "Error: statement"]
       /\ UNCHANGED <<hostEnv, destroyed, knexfile, globalKnex, entry, elsewhere>>
    \* resetPgSequences, lines 92-93: await Promise.all(...) resumes
    \/ /\ At(c, "resetPgSequences", "all")
       /\ Top(c).pending = << >>
       /\ Return(c, NULL)
       /\ UNCHANGED <<hostEnv, destroyed, knexfile, globalKnex, statements, entry, elsewhere>>
    \* resetPgSequences, line 92: a statement that was pending when the
    \* function threw ends, well or not; no code waits for it
    \/ /\ At(c, "resetPgSequences", "rejected")
       /\ Raw(c, Head(Top(c).pending), Val(Top(c).knex).database)
       /\ stack' = [stack EXCEPT ![c] =
                       IF Tail(Top(c).pending) = << >> THEN << >>
                       ELSE << [Top(c) EXCEPT !.pending = Tail(Top(c).pending)] >>]
       /\ UNCHANGED <<hostEnv, destroyed, knexfile, globalKnex, outcome, entry, elsewhere>>

\* what fs.readdir finds in the folder: names with their endings
Listings ==
    {<< >>,
     <<[name |-> "users", ext |-> ".json"]>>,
     <<[name |-> "notes", ext |-> ".txt"], [name |-> "posts", ext |-> ".json.js"],
       [name |-> "users", ext |-> ".json"]>>}

\* seedFolder, lines 109-116: the files kept, with the table they name
SeedTables(listing) ==
    LET kept == SelectSeq(listing, LAMBDA f : f.ext \in {".json", ".json.js"})
    IN  [i \in 1..Len(kept) |->
            [name |-> kept[i].name,
             type |-> IF kept[i].ext = ".json.js" THEN "js" ELSE "json",
             at |-> "select"]]

\* seedFolder, lines 120-122: the file required for a table
importFileName(tableData) ==
    IF tableData.type = "json" THEN <<tableData.name>>
    ELSE <<tableData.name, ".json">>

\* seedFolder, lines 119-134: table i of Promise.all fails; the promise of
\* seedFolder is rejected with the first error, and the other tables go on
Reject(c, error, i) ==
    /\ stack' = [stack EXCEPT ![c][Len(stack[c])] =
                    Wait([Top(c) EXCEPT !.pending[i].at = "failed"], "tables")]
    /\ outcome' = [outcome EXCEPT ![c] = IF @ = NoOutcome THEN error ELSE @]

\* seedFolder: one disjunct for each stretch of its code between two awaits
seedFolder(c) ==
    \* seedFolder, lines 99-103: getKnex() and the call of fs.readdir
    \/ /\ At(c, "seedFolder", "enter")
       /\ GetKnex(c, Wait(Top(c), "readdir"))
       /\ UNCHANGED <<hostEnv, destroyed, statements, entry, elsewhere>>
    \* seedFolder, lines 104-118: fs.readdir ends; the query of every table
    \* kept is called
    \/ /\ At(c, "seedFolder", "readdir")
       /\ \E err \in BOOLEAN, listing \in Listings :
            IF err
            THEN Throw(c, "Error: readdir")
            ELSE Goto(c, Wait([Top(c) EXCEPT !.pending = SeedTables(listing)], "tables"))
       /\ UNCHANGED <<hostEnv, destroyed, knexfile, globalKnex, statements, entry, elsewhere>>
    \* seedFolder, lines 119-126: the query of a table ends; its file is
    \* required and the insert called
    \/ /\ At(c, "seedFolder", "tables")
       /\ \E i \in 1..Len(Top(c).pending) :
            /\ Top(c).pending[i].at = "select"
            /\ Raw(c, "select", <<Top(c).pending[i].name>>)
            /\ \E ok \in Outcomes, found \in BOOLEAN :
                 IF ~ok
                 THEN Reject(c, "Error: statement", i)
                 ELSE IF ~found
                 THEN Reject(c, "Error: Cannot find module", i)
                 ELSE Goto(c, Wait([Top(c) EXCEPT !.pending[i].at = "insert"], "tables"))
       /\ UNCHANGED <<hostEnv, destroyed, knexfile, globalKnex, entry, elsewhere>>
    \* seedFolder, line 126: the insert of a table ends
    \/ /\ At(c, "seedFolder", "tables")
       /\ \E i \in 1..Len(Top(c).pending) :
            /\ Top(c).pending[i].at = "insert"
            /\ Raw(c, "insert", importFileName(Top(c).pending[i]))
            /\ \E ok \in Outcomes :
                 IF ok
                 THEN Goto(c, Wait([Top(c) EXCEPT !.pending[i].at = "done"], "tables"))
                 ELSE Reject(c, "Error: statement", i)
       /\ UNCHANGED <<hostEnv, destroyed, knexfile, globalKnex, entry, elsewhere>>
    \* seedFolder, lines 128-130: every table is done; self.resetPgSequences()
    \* is called, which is a function only when seedFolder was called as a
    \* method of the module
    \/ /\ At(c, "seedFolder", "tables")
       /\ \A i \in 1..Len(Top(c).pending) : Top(c).pending[i].at = "done"
       /\ IF "method" \in Top(c).opts
          THEN Await(c, Top(c), "resolve", Frame("resetPgSequences", NULL))
          ELSE Throw(c, "TypeError")
       /\ UNCHANGED <<hostEnv, destroyed, knexfile, globalKnex, statements, entry, elsewhere>>
    \* seedFolder, line 119: the tables have all ended and one has failed;
    \* nothing more is called
    \/ /\ At(c, "seedFolder", "tables")
       /\ \A i \in 1..Len(Top(c).pending) : Top(c).pending[i].at \in {"done", "failed"}
       /\ \E i \in 1..Len(Top(c).pending) : Top(c).pending[i].at = "failed"
       /\ stack' = [stack EXCEPT ![c] = << >>]
       /\ UNCHANGED <<hostEnv, destroyed, knexfile, globalKnex, statements, outcome, entry, elsewhere>>
    \* seedFolder, lines 131-133: resetPgSequences has returned
    \/ /\ At(c, "seedFolder", "resolve")
       /\ Return(c, NULL)
       /\ UNCHANGED <<hostEnv, destroyed, knexfile, globalKnex, statements, entry, elsewhere>>

\* updateColumnInBatch: one disjunct for each stretch of its code between two awaits
updateColumnInBatch(c) ==
    \* updateColumnInBatch, lines 416-423: getKnex() and the call of the update
    \/ /\ At(c, "updateColumnInBatch", "enter")
       /\ GetKnex(c, Wait(Top(c), "update"))
       /\ UNCHANGED <<hostEnv, destroyed, statements, entry, elsewhere>>
    \* updateColumnInBatch, line 423: the update ends
    \/ /\ At(c, "updateColumnInBatch", "update")
       /\ Raw(c, "update", Val(Top(c).knex).database)
       /\ \E ok \in Outcomes :
            IF ok THEN Return(c, NULL) ELSE Throw(c, "Error: statement")
       /\ UNCHANGED <<hostEnv, destroyed, knexfile, globalKnex, entry, elsewhere>>

\* an awaited statement of addColumn ends; logger.log follows, and the
\* function goes on as next
addColumnStep(c, sql, next) ==
    /\ Raw(c, sql, Val(Top(c).knex).database)
    /\ \E ok \in Outcomes :
         IF ~ok
         THEN Throw(c, "Error: statement")
         ELSE IF NoLog
         THEN Throw(c, "TypeError")
         ELSE next

\* addColumn: one disjunct for each stretch of its code between two awaits
addColumn(c) ==
    \* addColumn, lines 449-464: getKnex(), logger.log and the call of
    \* knex.schema.alterTable
    \/ /\ At(c, "addColumn", "enter")
       /\ \E made \in BOOLEAN :
            /\ knexfile' = getKnexLoads
            /\ IF getKnexThrows(made)
               THEN Throw(c, getKnexError) /\ UNCHANGED globalKnex
               ELSE /\ globalKnex' = getKnex
                    /\ IF NoLog
                       THEN Throw(c, "TypeError")
                       ELSE Goto(c, Wait([Top(c) EXCEPT !.knex = getKnex], "alterTable"))
       /\ UNCHANGED <<hostEnv, destroyed, statements, entry, elsewhere>>
    \* addColumn, lines 462-470: the column is added; the default is set
    \/ /\ At(c, "addColumn", "alterTable")
       /\ addColumnStep(c, "ALTER TABLE ADD COLUMN", Goto(c, Wait(Top(c), "setDefault")))
       /\ UNCHANGED <<hostEnv, destroyed, knexfile, globalKnex, entry, elsewhere>>
    \* addColumn, lines 467-483: the default is set; the rows are updated, by
    \* updateColumnInBatch or here
    \/ /\ At(c, "addColumn", "setDefault")
       /\ addColumnStep(c, "ALTER TABLE SET DEFAULT",
                        IF "updateInBatch" \in Top(c).opts
                        THEN Await(c, Top(c), "updated", Frame("updateColumnInBatch", NULL))
                        ELSE Goto(c, Wait(Top(c), "update")))
       /\ UNCHANGED <<hostEnv, destroyed, knexfile, globalKnex, entry, elsewhere>>
    \* addColumn, lines 482-489: the update ends; the column is set not null
    \/ /\ At(c, "addColumn", "update")
       /\ addColumnStep(c, "update", Goto(c, Wait(Top(c), "setNotNull")))
       /\ UNCHANGED <<hostEnv, destroyed, knexfile, globalKnex, entry, elsewhere>>
    \* addColumn, lines 475-489: updateColumnInBatch has returned; the column
    \* is set not null
    \/ /\ At(c, "addColumn", "updated")
       /\ IF NoLog
          THEN Throw(c, "TypeError")
          ELSE Goto(c, Wait(Top(c), "setNotNull"))
       /\ UNCHANGED <<hostEnv, destroyed, knexfile, globalKnex, statements, entry, elsewhere>>
    \* addColumn, lines 486-502: the column is not null; with index, logger.log
    \* and the index is made
    \/ /\ At(c, "addColumn", "setNotNull")
       /\ Raw(c, "ALTER TABLE SET NOT NULL", Val(Top(c).knex).database)
       /\ \E ok \in Outcomes :
            IF ~ok
            THEN Throw(c, "Error: statement")
            ELSE IF "index" \notin Top(c).opts
            THEN Return(c, NULL)
            ELSE IF NoLog
            THEN Throw(c, "TypeError")
            ELSE Goto(c, Wait(Top(c), "index"))
       /\ UNCHANGED <<hostEnv, destroyed, knexfile, globalKnex, entry, elsewhere>>
    \* addColumn, lines 493-502: the index is made
    \/ /\ At(c, "addColumn", "index")
       /\ Raw(c, IF "indexConcurrent" \in Top(c).opts
                 THEN "CREATE INDEX CONCURRENTLY" ELSE "ALTER TABLE INDEX",
              Val(Top(c).knex).database)
       /\ \E ok \in Outcomes :
            IF ok THEN Return(c, NULL) ELSE Throw(c, "Error: statement")
       /\ UNCHANGED <<hostEnv, destroyed, knexfile, globalKnex, entry, elsewhere>>

\* index.js is loaded, in a working directory with or without a knexfile
InitDb ==
    /\ arg = NULL
    /\ ret = NoCall
    /\ GenIdle
    /\ nodeEnv \in NodeEnvs
    /\ lodash \in BOOLEAN
    /\ logger = Console
    /\ cwd \in {NULL} \cup {Some(file) : file \in Knexfiles}
    /\ knexfile = NULL
    /\ globalKnex = NULL
    /\ destroyed = {}
    /\ stack = [c \in Callers |-> << >>]
    /\ statements = [c \in Callers |-> << >>]
    /\ outcome = [c \in Callers |-> NoOutcome]
    /\ entry = [c \in Callers |-> NULL]

NextDb ==
    \/ \E c \in Callers : Invoke(c)
    \/ setKnex
    \/ setLogger
    \/ HostGetKnexFile
    \/ HostGetKnex
    \/ \E c \in Callers : dropDb(c)
    \/ \E c \in Callers : createDb(c)
    \/ \E c \in Callers : recreateDb(c)
    \/ \E c \in Callers : refreshDb(c)
    \/ \E c \in Callers : copyDb(c)
    \/ \E c \in Callers : copyDbForTest(c)
    \/ \E c \in Callers : rollbackCopyDbForTest(c)
    \/ \E c \in Callers : resetPgSequences(c)
    \/ \E c \in Callers : seedFolder(c)
    \/ \E c \in Callers : updateColumnInBatch(c)
    \/ \E c \in Callers : addColumn(c)

SpecDb == InitDb /\ [][NextDb]_vars

(***************************************************************************)
(* The databases generate() is run against.                                *)
(***************************************************************************)
NextvalDefault == <<"nextval", "(", Q, "a", Q, ":", ":", "a", ")">>

ColRow(name, type, dv, n) ==
    [name |-> name, type |-> type, defaultValue |-> dv, nullable |-> n]

\* what the first column of a table can be
FirstColumns ==
    {ColRow(<<"a">>, "integer", Some(NextvalDefault), FALSE),
     ColRow(<<"a">>, "integer", Some(<<"0">>), FALSE),
     ColRow(<<"a">>, "integer", Some(<<"a">>), TRUE),
     ColRow(<<"a">>, "character varying", Some(<<Q, "a", Q, ":", ":", "a">>), TRUE),
     ColRow(<<"a">>, "numeric", Some(<<"1">>), FALSE),
     ColRow(<<"a">>, "text", NULL, TRUE),
     ColRow(<<"a">>, "uuid", NULL, FALSE)}

\* what the second column can be
SecondColumns ==
    {ColRow(<<"b">>, "character varying", NULL, FALSE),
     ColRow(<<"b">>, "integer", Some(<<"1">>), TRUE)}

ColumnRows ==
    {<<c>> : c \in FirstColumns} \cup {<<c, d>> : c \in FirstColumns, d \in SecondColumns}

\* the row of information_schema.columns of a column
DetailedRowOf(tableName, c) ==
    [table_name |-> tableName, column_name |-> c.name,
     character_maximum_length |->
         IF c.type = "character varying" THEN Some(255) ELSE NULL,
     numeric_precision |->
         CASE c.type = "numeric" -> Some(10)
           [] c.type = "integer" -> Some(32)
           [] OTHER -> NULL]

\* The two column queries are not one snapshot and the detailed one is not
\* limited to the schema: the detailed rows are those of the columns, or
\* miss the row of the first column (dropped in between), or hold one more
\* row (the column of a table of that name in another schema).
DetailedRowsOf(tableName, cols) ==
    LET all == [i \in 1..Len(cols) |-> DetailedRowOf(tableName, cols[i])]
    IN  {all,
         Tail(all),
         Append(all, DetailedRowOf(tableName, ColRow(<<"c">>, "text", NULL, TRUE)))}

IndexRow(name, cols, unique, isPrimary) ==
    [index_name |-> name, indexed_columns |-> cols, is_unique |-> unique,
     is_primary |-> isPrimary]

\* the rows getIndexes can return: over one column that exists (plain or
\* written in double quotes), over two columns, over an expression
IndexRows ==
    {IndexRow("a_pkey", << <<"a">> >>, TRUE, TRUE),
     IndexRow("a_unique", << <<"a">> >>, TRUE, FALSE),
     IndexRow("a_index", << <<"a">> >>, FALSE, FALSE),
     IndexRow("b_unique", << <<"\"", "b", "\"">> >>, TRUE, FALSE),
     IndexRow("b_index", << <<"\"", "b", "\"">> >>, FALSE, FALSE),
     IndexRow("ab_pkey", << <<"a">>, <<"\"", "b", "\"">> >>, TRUE, TRUE),
     IndexRow("ab_unique", << <<"a">>, <<"b">> >>, TRUE, FALSE),
     IndexRow("ab_index", << <<"a">>, <<"b">> >>, FALSE, FALSE),
     IndexRow("lower_index", << <<"lower", "(", "a", ")">> >>, FALSE, FALSE)}

\* the lists of at most n index rows: index names are unique, and a table
\* has at most one primary key
MoreIndexRows(S, n) ==
    S \cup
    UNION {{Append(l, r) :
               r \in {x \in IndexRows :
                         /\ \A j \in 1..Len(l) : l[j].index_name # x.index_name
                         /\ x.is_primary => \A j \in 1..Len(l) : ~l[j].is_primary}}
           : l \in {m \in S : Len(m) = n - 1}}

RECURSIVE IndexListsUpTo(_)
IndexListsUpTo(n) == IF n = 0 THEN {<< >>} ELSE MoreIndexRows(IndexListsUpTo(n - 1), n)

Catalog(cols, detailedRows, indexRows) ==
    [columns |-> cols, detailed |-> detailedRows, indexes |-> indexRows]

\* the catalogs of the table under study
RichCatalogs ==
    UNION {{Catalog(cols, det, idx) :
                det \in DetailedRowsOf("users", cols),
                idx \in IndexListsUpTo(MaxIndexes)} : cols \in ColumnRows}

\* the catalogs of the tables of a database with several tables: one that
\* generates, one with an unsupported column type
PlainCatalog(tableName) ==
    LET cols == <<ColRow(<<"a">>, "integer", Some(NextvalDefault), FALSE)>>
    IN  Catalog(cols, <<DetailedRowOf(tableName, cols[1])>>,
                <<IndexRow("a_pkey", << <<"a">> >>, TRUE, TRUE)>>)

BrokenCatalog(tableName) ==
    LET cols == <<ColRow(<<"a">>, "uuid", NULL, FALSE)>>
    IN  Catalog(cols, <<DetailedRowOf(tableName, cols[1])>>, << >>)

TableNames == {"users", "posts", "knex_migrations"}

NoCatalog == Catalog(<< >>, << >>, << >>)

OneTableDbs ==
    {[tables |-> <<"users">>,
      cat |-> [t \in TableNames |-> IF t = "users" THEN c ELSE NoCatalog]] :
        c \in RichCatalogs}

ManyTableDbs ==
    {[tables |-> ts,
      cat |-> [t \in TableNames |->
                  CASE t = "users" -> cu
                    [] t = "posts" -> cp
                    [] OTHER -> PlainCatalog(t)]] :
        ts \in {<< >>, <<"knex_migrations">>, <<"users", "posts">>,
                <<"knex_migrations", "posts", "users">>},
        cu \in {PlainCatalog("users"), BrokenCatalog("users")},
        cp \in {PlainCatalog("posts"), BrokenCatalog("posts")}}

Databases == OneTableDbs \cup ManyTableDbs

(***************************************************************************)
(* generate(), run as the main module.  Every await is a point where the   *)
(* other table callbacks may run; each action below is the code from one   *)
(* await to the next.  A query or a file operation may fail.               *)
(***************************************************************************)
Running == exitCode = NULL

\* the knexfile generate() is run with
GenerateKnexfile ==
    [e \in ConfigEnvs |->
        [client |-> "pg", database |-> Some(App), originalDatabase |-> NULL]]

\* generate() is called: getTables calls getKnex(), which loads the knexfile
\* and makes the handle of the module, and the query of the tables
OnGenerate ==
    /\ Running
    /\ gpc = "generate"
    /\ \E made \in BOOLEAN :
         /\ knexfile' = getKnexLoads
         /\ IF getKnexThrows(made)
            THEN gpc' = "rejected" /\ UNCHANGED globalKnex
            ELSE gpc' = "getTables" /\ globalKnex' = getKnex
    /\ UNCHANGED <<hostEnv, destroyed, stack, statements, outcome, entry>>
    /\ UNCHANGED <<arg, ret, db, tables, tpc, columnsInfo, indexes, generated, disk, warnings, exitCode>>

\* await getTables()
OnTables ==
    /\ Running
    /\ gpc = "getTables"
    /\ \E ok \in BOOLEAN :
        IF ok
        THEN /\ tables' = getTablesFilter(db.tables)
             /\ gpc' = "mkdirp"
        ELSE /\ gpc' = "rejected"
             /\ UNCHANGED tables
    /\ UNCHANGED <<dbVars, arg, ret, db, tpc, columnsInfo, indexes, generated, disk, warnings, exitCode>>

\* await file(...).mkdirp(), then tables.map starts every callback, each up
\* to its first await
OnMkdirp ==
    /\ Running
    /\ gpc = "mkdirp"
    /\ \E ok \in BOOLEAN :
        IF ok
        THEN /\ disk' = [disk EXCEPT !.dir = TRUE]
             /\ tpc' = [t \in TableNames |->
                           IF \E j \in 1..Len(tables) : tables[j] = t
                           THEN "columnInfo" ELSE "idle"]
             /\ gpc' = "awaitAll"
        ELSE /\ gpc' = "rejected"
             /\ UNCHANGED <<disk, tpc>>
    /\ UNCHANGED <<dbVars, arg, ret, db, tables, columnsInfo, indexes, generated, warnings, exitCode>>

\* getColumns: await getKnex().table(tableName).columnInfo()
OnColumnInfo(t) ==
    /\ Running
    /\ tpc[t] = "columnInfo"
    /\ \E ok \in BOOLEAN :
        IF ok
        THEN /\ columnsInfo' = [columnsInfo EXCEPT ![t] = columnInfoOf(db.cat[t].columns)]
             /\ tpc' = [tpc EXCEPT ![t] = "detailedInfo"]
        ELSE /\ tpc' = [tpc EXCEPT ![t] = "failed"]
             /\ UNCHANGED columnsInfo
    /\ UNCHANGED <<dbVars, arg, ret, db, gpc, tables, indexes, generated, disk, warnings, exitCode>>

\* getColumns: await getKnex().from('information_schema.columns')..., the
\* merge and the return
OnDetailedInfo(t) ==
    /\ Running
    /\ tpc[t] = "detailedInfo"
    /\ \E ok \in BOOLEAN :
        IF ok
        THEN LET merged == getColumns(columnsInfo[t], db.cat[t].detailed)
             IN  /\ columnsInfo' = [columnsInfo EXCEPT ![t] = merged.columnsInfo]
                 /\ tpc' = [tpc EXCEPT ![t] =
                               IF merged.threw = NoThrow THEN "columns" ELSE "failed"]
        ELSE /\ tpc' = [tpc EXCEPT ![t] = "failed"]
             /\ UNCHANGED columnsInfo
    /\ UNCHANGED <<dbVars, arg, ret, db, gpc, tables, indexes, generated, disk, warnings, exitCode>>

\* await getColumns(...) resumes in the callback, which calls getIndexes
OnColumns(t) ==
    /\ Running
    /\ tpc[t] = "columns"
    /\ tpc' = [tpc EXCEPT ![t] = "getIndexes"]
    /\ UNCHANGED <<dbVars, arg, ret, db, gpc, tables, columnsInfo, indexes, generated, disk, warnings, exitCode>>

\* getIndexes: await getKnex().raw(...) and the return of the rows
OnIndexRows(t) ==
    /\ Running
    /\ tpc[t] = "getIndexes"
    /\ \E ok \in BOOLEAN :
        IF ok
        THEN /\ indexes' = [indexes EXCEPT ![t] =
                               [j \in 1..Len(db.cat[t].indexes) |->
                                   indexRowOf(db.cat[t].indexes[j])]]
             /\ tpc' = [tpc EXCEPT ![t] = "indexes"]
        ELSE /\ tpc' = [tpc EXCEPT ![t] = "failed"]
             /\ UNCHANGED indexes
    /\ UNCHANGED <<dbVars, arg, ret, db, gpc, tables, columnsInfo, generated, disk, warnings, exitCode>>

\* await getIndexes(...) resumes in the callback: the classification, and
\* the call of singleTableGenerator, which runs to its end
OnIndexes(t) ==
    /\ Running
    /\ tpc[t] = "indexes"
    /\ LET c == classify(columnsInfo[t], indexes[t])
           g == singleTableGenerator(t, c.columnsInfo, c.indexes)
       IN  /\ columnsInfo' = [columnsInfo EXCEPT ![t] = c.columnsInfo]
           /\ indexes' = [indexes EXCEPT ![t] = c.indexes]
           /\ IF c.threw # NoThrow
              THEN /\ warnings' = warnings + c.warned
                   /\ tpc' = [tpc EXCEPT ![t] = "failed"]
                   /\ UNCHANGED generated
              ELSE /\ warnings' = warnings + c.warned + g.warned
                   /\ generated' = [generated EXCEPT ![t] = Some(g)]
                   /\ tpc' = [tpc EXCEPT ![t] = "generated"]
    /\ UNCHANGED <<dbVars, arg, ret, db, gpc, tables, disk, exitCode>>

\* await singleTableGenerator(...) resumes in the callback: it throws what
\* the generator threw, or calls file(...).write
OnGenerated(t) ==
    /\ Running
    /\ tpc[t] = "generated"
    /\ tpc' = [tpc EXCEPT ![t] =
                  IF Val(generated[t]).threw = NoThrow THEN "write" ELSE "failed"]
    /\ UNCHANGED <<dbVars, arg, ret, db, gpc, tables, columnsInfo, indexes, generated, disk, warnings, exitCode>>

\* the write of the table's file ends
OnWrite(t) ==
    /\ Running
    /\ tpc[t] = "write"
    /\ \E ok \in BOOLEAN :
        IF ok
        THEN /\ disk' = [disk EXCEPT !.files[tablePath(t)] = Some(Val(generated[t]).text)]
             /\ tpc' = [tpc EXCEPT ![t] = "written"]
        ELSE /\ tpc' = [tpc EXCEPT ![t] = "failed"]
             /\ UNCHANGED disk
    /\ UNCHANGED <<dbVars, arg, ret, db, gpc, tables, columnsInfo, indexes, generated, warnings, exitCode>>

\* Promise.allSettled in place of Promise.all: generate() goes on once every
\* callback has ended, thrown or not
OnAllSettled ==
    /\ Running
    /\ gpc = "awaitAll"
    /\ \A j \in 1..Len(tables) : tpc[tables[j]] \in {"written", "failed"}
    /\ gpc' = "writeIndex"
    /\ UNCHANGED <<dbVars, arg, ret, db, tables, tpc, columnsInfo, indexes, generated, disk, warnings, exitCode>>

\* await Promise.all(...) resumes: every callback has ended; the source of
\* the aggregating file is built and its write called
OnAllWritten ==
    /\ Running
    /\ gpc = "awaitAll"
    /\ \A j \in 1..Len(tables) : tpc[tables[j]] = "written"
    /\ gpc' = "writeIndex"
    /\ UNCHANGED <<dbVars, arg, ret, db, tables, tpc, columnsInfo, indexes, generated, disk, warnings, exitCode>>

\* await Promise.all(...) throws: some callback has thrown
OnTableFailed ==
    /\ Running
    /\ gpc = "awaitAll"
    /\ \E j \in 1..Len(tables) : tpc[tables[j]] = "failed"
    /\ gpc' = "rejected"
    /\ UNCHANGED <<dbVars, arg, ret, db, tables, tpc, columnsInfo, indexes, generated, disk, warnings, exitCode>>

\* the write of migrations/index.js ends
OnIndexFileWrite ==
    /\ Running
    /\ gpc = "writeIndex"
    /\ \E ok \in BOOLEAN :
        IF ok
        THEN /\ disk' = [disk EXCEPT !.files[indexPath] = Some(indexFile(tables))]
             /\ gpc' = "resolved"
        ELSE /\ gpc' = "rejected"
             /\ UNCHANGED disk
    /\ UNCHANGED <<dbVars, arg, ret, db, tables, tpc, columnsInfo, indexes, generated, warnings, exitCode>>

\* generate().catch(err => process.exit(1)).then(() => process.exit(0))
Exit ==
    /\ Running
    /\ gpc \in {"rejected", "resolved"}
    /\ exitCode' = Some(IF gpc = "resolved" THEN 0 ELSE 1)
    /\ UNCHANGED <<dbVars, arg, ret, db, gpc, tables, tpc, columnsInfo, indexes, generated, disk, warnings>>

Paths == {tablePath(t) : t \in TableNames} \cup {indexPath}

Init ==
    /\ arg = NULL
    /\ ret = NoCall
    /\ db \in Databases
    /\ gpc = "generate"
    /\ tables = << >>
    /\ tpc = [t \in TableNames |-> "idle"]
    /\ columnsInfo = [t \in TableNames |-> << >>]
    /\ indexes = [t \in TableNames |-> << >>]
    /\ generated = [t \in TableNames |-> NULL]
    /\ disk = [dir |-> FALSE, files |-> [f \in Paths |-> NULL]]
    /\ warnings = 0
    /\ exitCode = NULL
    /\ nodeEnv = NULL
    /\ lodash = FALSE
    /\ logger = Console
    /\ cwd \in {NULL, Some(GenerateKnexfile)}
    /\ knexfile = NULL
    /\ globalKnex = NULL
    /\ destroyed = {}
    /\ NoCalls

Next ==
    \/ OnGenerate
    \/ OnTables
    \/ OnMkdirp
    \/ \E t \in TableNames : OnColumnInfo(t)
    \/ \E t \in TableNames : OnDetailedInfo(t)
    \/ \E t \in TableNames : OnColumns(t)
    \/ \E t \in TableNames : OnIndexRows(t)
    \/ \E t \in TableNames : OnIndexes(t)
    \/ \E t \in TableNames : OnGenerated(t)
    \/ \E t \in TableNames : OnWrite(t)
    \/ OnAllWritten
    \/ OnTableFailed
    \/ OnIndexFileWrite
    \/ Exit

Spec == Init /\ [][Next]_vars

(***************************************************************************)
(* Properties of the column functions, checked under SpecCol.              *)
(***************************************************************************)
\* the mapping table of the type mapper, as specified
SpecifiedTypes ==
    ("integer" :> "integer") @@
    ("character varying" :> "string") @@
    ("jsonb" :> "jsonb") @@
    ("timestamp with time zone" :> "timestamp") @@
    ("text" :> "text") @@
    ("boolean" :> "boolean") @@
    ("real" :> "float") @@
    ("numeric" :> "decimal") @@
    ("USER-DEFINED" :> "specificType")

\* C1: getType resolves a raw type of the table to the semantic type the
\* table gives it (an integer may be refined to increments), and for a raw
\* type outside the table it throws 'invalid type', so that neither a
\* column clause nor the source of the table is produced.
C1_TypeMapping ==
    /\ DOMAIN map = DOMAIN SpecifiedTypes
    /\ \A T \in DOMAIN SpecifiedTypes : map[T] = SpecifiedTypes[T]
    /\ ret.fn = "getType" =>
          IF arg.type \in DOMAIN SpecifiedTypes
          THEN ret.out.threw = NoThrow =>
                  \/ ret.out.type = SpecifiedTypes[arg.type]
                  \/ arg.type = "integer" /\ ret.out.type = "increments"
          ELSE ret.out.threw = InvalidType
    /\ (ret.fn \in {"columnClause", "singleTableGenerator"}
            /\ arg.type \notin DOMAIN SpecifiedTypes) =>
          ret.out.threw = InvalidType /\ ret.out.text = << >>

C1_Witness ==
    /\ ret.fn = "getType"
    /\ arg.type = "real"
    /\ ret.out.threw = NoThrow
    /\ ret.out.type = "float"

\* an integer column whose default begins with the sequence marker
IsSerial(columnInfo) ==
    /\ columnInfo.type = "integer"
    /\ ~IsNull(columnInfo.defaultValue)
    /\ Len(Val(columnInfo.defaultValue)) >= 1
    /\ Val(columnInfo.defaultValue)[1] = "nextval"

\* C2: an integer column whose default begins with nextval resolves to
\* increments with no extra args; its default modifier is empty and its
\* clause is the increments constructor with no default modifier.
C2_Increments ==
    IsSerial(arg) =>
        /\ ret.fn = "getType" =>
              ret.out = [threw |-> NoThrow, type |-> "increments", extraParams |-> << >>]
        /\ ret.fn = "defaults" => ret.out.threw = NoThrow /\ ret.out.text = << >>
        /\ ret.fn = "columnClause" =>
              /\ ret.out.threw = NoThrow
              /\ ret.out.type = "increments"
              /\ ret.out.extraParams = << >>
              /\ ret.out.defaults = << >>
              /\ SubSeq(ret.out.text, 1, 6) = <<"\t\t\ttable.", "increments", "('", "a", Q, ")">>
              /\ \A i \in 1..Len(ret.out.text) : ret.out.text[i] # ".defaultTo("

C2_Witness ==
    /\ IsSerial(arg)
    /\ ret.fn = "columnClause"
    /\ ret.out.threw = NoThrow
    /\ ret.out.type = "increments"

\* C3 (as claimed): the extra constructor args are the recorded maximum
\* length for a string, the recorded precision for a decimal, and none when
\* the length or the precision is not recorded.
C3_ExtraArgs ==
    (ret.fn = "getType" /\ ret.out.threw = NoThrow /\ ~IsNull(arg.detailedInfo)) =>
        /\ ret.out.type = "string" =>
              ret.out.extraParams =
                  IF IsNull(Val(arg.detailedInfo).character_maximum_length) THEN << >>
                  ELSE << <<ToString(Val(Val(arg.detailedInfo).character_maximum_length))>> >>
        /\ ret.out.type = "decimal" =>
              ret.out.extraParams =
                  IF IsNull(Val(arg.detailedInfo).numeric_precision) THEN << >>
                  ELSE << <<ToString(Val(Val(arg.detailedInfo).numeric_precision))>> >>

\* a column of semantic type decimal or integer with a default that is not
\* empty and not a quoted string literal, and with its detailed metadata
HasPlainNumericDefault(columnInfo) ==
    /\ columnInfo.type \in {"numeric", "integer"}
    /\ ~IsSerial(columnInfo)
    /\ ~IsNull(columnInfo.defaultValue)
    /\ Val(columnInfo.defaultValue) # << >>
    /\ QuotedLiteralEnd(Val(columnInfo.defaultValue)) = 0
    /\ ~IsNull(columnInfo.detailedInfo)

\* C4 (as claimed): for a decimal or integer column with a default that is
\* not a quoted literal, a default that parses as a number gives a default
\* clause carrying the number; one that does not parse gives no default
\* clause and exactly one warning, and nothing is thrown.
C4_NumericDefault ==
    (ret.fn = "defaults" /\ HasPlainNumericDefault(arg)) =>
        LET n == NumberOf(RemoveFirstQuote(Val(arg.defaultValue)))
        IN  IF IsNull(n)
            THEN ret.out = [threw |-> NoThrow, warned |-> 1, text |-> << >>]
            ELSE ret.out = [threw |-> NoThrow, warned |-> 0,
                            text |-> <<".defaultTo(">> \o Val(n) \o <<")">>]

\* a column whose type resolves, to another type than increments, and whose
\* default matches the quoted-string-literal pattern
HasQuotedDefault(columnInfo) ==
    /\ ~IsNull(columnInfo.defaultValue)
    /\ QuotedLiteralEnd(Val(columnInfo.defaultValue)) > 0
    /\ getType(columnInfo).threw = NoThrow
    /\ getType(columnInfo).type # "increments"

\* the literal between the quotes with every escaped quote unescaped
UnquotedLiteral(raw) ==
    ReplaceEveryEscapedQuote(SubSeq(raw, 2, QuotedLiteralEnd(raw) - 1))

\* C5 (as claimed): a default matching the quoted-literal pattern yields
\* the unquoted literal: quotes stripped, cast discarded, escaped quotes
\* unescaped.
C5_UnquotedLiteral ==
    (ret.fn = "defaults" /\ HasQuotedDefault(arg)) =>
        /\ ret.out.threw = NoThrow
        /\ ret.out.text = <<".defaultTo(">> \o UnquotedLiteral(Val(arg.defaultValue)) \o <<")">>

\* g with its first backslash-quote pair turned into a quote is lit
FirstEscapeUnescaped(g, lit) ==
    IF \E i \in 1..(Len(g) - 1) : g[i] = BS /\ g[i + 1] = Q
    THEN \E i \in 1..(Len(g) - 1) :
            /\ g[i] = BS /\ g[i + 1] = Q
            /\ \A j \in 1..(i - 1) : ~(g[j] = BS /\ g[j + 1] = Q)
            /\ Len(lit) = Len(g) - 1
            /\ \A j \in 1..Len(lit) : lit[j] = IF j < i THEN g[j] ELSE g[j + 1]
    ELSE lit = g

\* C5 (amended): a default matching the quoted-literal pattern yields the
\* default clause of the literal still in its single quotes: the cast
\* suffix is discarded, the surrounding quotes are kept, and only the first
\* backslash-escaped quote is unescaped.
C5_QuotedLiteral ==
    (ret.fn = "defaults" /\ HasQuotedDefault(arg)) =>
        LET raw == Val(arg.defaultValue)
            t   == ret.out.text
        IN  /\ ret.out.threw = NoThrow
            /\ ret.out.warned = 0
            /\ Len(t) >= 4
            /\ t[1] = ".defaultTo("
            /\ t[Len(t)] = ")"
            /\ t[2] = Q
            /\ t[Len(t) - 1] = Q
            /\ \E k \in 2..Len(raw) :
                  /\ raw[k] = Q
                  /\ k = Len(raw) \/ IsCastSuffix(SubSeq(raw, k + 1, Len(raw)))
                  /\ FirstEscapeUnescaped(SubSeq(raw, 1, k), SubSeq(t, 2, Len(t) - 1))

C5_Witness ==
    /\ ret.fn = "defaults"
    /\ arg.type = "character varying"
    /\ arg.defaultValue = Some(<<Q, "a", BS, Q, "a", Q, ":", ":", "a">>)
    /\ ret.out.text = <<".defaultTo(", Q, "a", Q, "a", Q, ")">>

(***************************************************************************)
(* Properties of generate(), checked under Spec.                           *)
(***************************************************************************)
\* the callback of table t has classified its indexes without throwing
Classified(t) == ~IsNull(generated[t])

\* singleTableGenerator has returned the source of table t
Generated(t) == ~IsNull(generated[t]) /\ Val(generated[t]).threw = NoThrow

\* the entries of the column map of t whose key is the quote-stripped text c
ColumnsNamed(t, c) == KeyPositions(columnsInfo[t], StripDoubleQuotes(c))

Has(text, fragment) == \E i \in 1..Len(text) : text[i] = fragment

\* the table-level clauses of t made for the index named n
TableClausesOf(t, n) ==
    {j \in 1..Len(Val(generated[t]).indexes) : Val(generated[t]).indexes[j].name = n}

\* C6: once the indexes of a table are classified, an index over one column
\* that exists is marked single, is the one index attached to that column
\* or is replaced there by a later single index, and has no table-level
\* clause; an index over two or more columns is marked multiple, has one
\* table-level clause naming its columns, and is attached to no column; a
\* column without attached index has neither a primary nor an index marker.
C6_IndexClassification ==
    \A t \in TableNames :
        Classified(t) =>
            /\ Len(indexes[t]) = Len(db.cat[t].indexes)
            /\ \A j \in 1..Len(indexes[t]) :
                LET i == indexes[t][j]
                IN  /\ i.index_name = db.cat[t].indexes[j].index_name
                    /\ (Len(i.indexed_columns) = 1
                            /\ ColumnsNamed(t, i.indexed_columns[1]) # {}) =>
                          /\ i.single /\ ~i.multiple /\ ~i.error
                          /\ \A k \in ColumnsNamed(t, i.indexed_columns[1]) :
                                /\ Len(columnsInfo[t][k].info.index) = 1
                                /\ Val(columnsInfo[t][k].info.index).single
                                /\ Val(columnsInfo[t][k].info.index).indexed_columns
                                       = i.indexed_columns
                          /\ Generated(t) => TableClausesOf(t, i.index_name) = {}
                    /\ Len(i.indexed_columns) >= 2 =>
                          /\ i.multiple /\ ~i.single /\ ~i.error
                          /\ \A k \in 1..Len(columnsInfo[t]) :
                                \/ IsNull(columnsInfo[t][k].info.index)
                                \/ Val(columnsInfo[t][k].info.index).index_name # i.index_name
                          /\ Generated(t) =>
                                /\ Cardinality(TableClausesOf(t, i.index_name)) = 1
                                /\ \A c \in TableClausesOf(t, i.index_name) :
                                      /\ Val(generated[t]).indexes[c].text[1] \in
                                             {"\t\t\ttable.primary([", "\t\t\ttable.unique([",
                                              "\t\t\ttable.index(["}
                                      /\ Has(Val(generated[t]).text,
                                             Val(generated[t]).indexes[c].text[1])
            /\ Generated(t) =>
                  \A k \in 1..Len(columnsInfo[t]) :
                      (\A j \in 1..Len(indexes[t]) :
                           Len(indexes[t][j].indexed_columns) >= 2) =>
                          /\ Val(generated[t]).columns[k].primary = << >>
                          /\ Val(generated[t]).columns[k].indexed = << >>

C6_Witness ==
    /\ tpc["users"] = "written"
    /\ Len(indexes["users"]) = 2
    /\ indexes["users"][1].index_name = "ab_unique"
    /\ indexes["users"][1].multiple
    /\ indexes["users"][2].index_name = "b_index"
    /\ indexes["users"][2].single
    /\ Val(columnsInfo["users"][2].info.index).index_name = "b_index"
    /\ IsNull(columnsInfo["users"][1].info.index)

\* the two column queries of t agree: the detailed rows are those of the
\* columns of the concise view
ConsistentCatalog(t) ==
    /\ Len(db.cat[t].detailed) = Len(db.cat[t].columns)
    /\ \A k \in 1..Len(db.cat[t].columns) :
          db.cat[t].detailed[k].column_name = db.cat[t].columns[k].name

\* the markers a clause may carry
NullabilityMarkers == {".nullable()", ".notNullable()"}

\* C7 (as claimed): in the clause of a column with an attached index (of a
\* table with consistent column views), a
\* primary index gives .primary() and no nullability, default, unique or
\* index modifier; a unique one that is not primary gives .unique() and no
\* .index(); any other gives .index(); no clause has .unique() and .index().
C7_PrimaryWithoutDefault ==
    \A t \in TableNames :
        (Generated(t) /\ ConsistentCatalog(t)) =>
            \A k \in 1..Len(columnsInfo[t]) :
                LET clause == Val(generated[t]).columns[k].text
                    index  == columnsInfo[t][k].info.index
                IN  /\ ~(Has(clause, ".unique()") /\ Has(clause, ".index()"))
                    /\ ~IsNull(index) =>
                          IF Val(index).is_primary
                          THEN /\ Has(clause, ".primary()")
                               /\ \A i \in 1..Len(clause) :
                                     clause[i] \notin NullabilityMarkers
                                                      \cup {".defaultTo(", ".unique()", ".index()"}
                          ELSE IF Val(index).is_unique
                          THEN Has(clause, ".unique()") /\ ~Has(clause, ".index()")
                          ELSE Has(clause, ".index()")

\* C7 (amended): in the clause of a column with an attached index, a
\* primary index gives .primary() and no nullability, unique or index
\* modifier (the default modifier is the one the column has without the
\* index); a unique one that is not primary gives .unique() and no
\* .index(); any other gives .index(); no clause has .unique() and .index().
C7_IndexPrecedence ==
    \A t \in TableNames :
        Generated(t) =>
            \A k \in 1..Len(columnsInfo[t]) :
                LET clause == Val(generated[t]).columns[k].text
                    index  == columnsInfo[t][k].info.index
                IN  /\ ~(Has(clause, ".unique()") /\ Has(clause, ".index()"))
                    /\ ~IsNull(index) =>
                          IF Val(index).is_primary
                          THEN /\ Has(clause, ".primary()")
                               /\ \A i \in 1..Len(clause) :
                                     clause[i] \notin NullabilityMarkers
                                                      \cup {".unique()", ".index()"}
                               /\ Val(generated[t]).columns[k].defaults =
                                      defaults([columnsInfo[t][k].info EXCEPT !.index = NULL]).text
                          ELSE IF Val(index).is_unique
                          THEN /\ Has(clause, ".unique()")
                               /\ ~Has(clause, ".index()")
                               /\ ~Has(clause, ".primary()")
                          ELSE /\ Has(clause, ".index()")
                               /\ ~Has(clause, ".primary()")

C7_Witness ==
    /\ tpc["users"] = "written"
    /\ Len(columnsInfo["users"]) = 2
    /\ ~IsNull(columnsInfo["users"][1].info.index)
    /\ Val(columnsInfo["users"][1].info.index).is_primary
    /\ ~IsNull(columnsInfo["users"][2].info.index)
    /\ Val(columnsInfo["users"][2].info.index).index_name = "b_unique"
    /\ Has(Val(generated["users"]).columns[1].text, ".primary()")
    /\ Has(Val(generated["users"]).columns[1].text, ".defaultTo(")
    /\ Has(Val(generated["users"]).columns[2].text, ".unique()")

\* getColumns has returned the column map of t
ColumnsReturned(t) == tpc[t] \in {"columns", "getIndexes", "indexes", "generated", "write", "written"}

\* C8 (as claimed): getColumns returns only when every column of the
\* concise view has its row of the detailed view, and every column of the
\* map it returns carries its detailed metadata.
C8_DetailedForEveryColumn ==
    \A t \in TableNames :
        ColumnsReturned(t) =>
            /\ \A k \in 1..Len(db.cat[t].columns) :
                  \E r \in 1..Len(db.cat[t].detailed) :
                      db.cat[t].detailed[r].column_name = db.cat[t].columns[k].name
            /\ \A k \in 1..Len(columnsInfo[t]) : ~IsNull(columnsInfo[t][k].info.detailedInfo)

\* the tables of the catalog that are not on the denylist
Wanted == {t \in TableNames :
              /\ \E j \in 1..Len(db.tables) : db.tables[j] = t
              /\ t \notin {"knex_migrations", "knex_migrations_lock"}}

SomeTableFailed == \E t \in TableNames : tpc[t] = "failed"

\* C9, the states: the aggregating file is written, or its write called,
\* only when the file of every table off the denylist is written; once the
\* callback of a table has failed, the aggregating file is not written,
\* generate() does not resolve and the process does not exit with 0.
C9_States ==
    /\ (gpc \in {"writeIndex", "resolved"} \/ ~IsNull(disk.files[indexPath])) =>
          \A t \in Wanted : tpc[t] = "written" /\ ~IsNull(disk.files[tablePath(t)])
    /\ \A t \in TableNames : tpc[t] = "written" <=> ~IsNull(disk.files[tablePath(t)])
    /\ SomeTableFailed =>
          /\ IsNull(disk.files[indexPath])
          /\ gpc \in {"awaitAll", "rejected"}
          /\ exitCode \in {NULL, Some(1)}
    /\ (SomeTableFailed /\ \A t \in Wanted : tpc[t] \in {"written", "failed"}) =>
          ENABLED (OnTableFailed \/ Exit) \/ exitCode = Some(1)

\* C9, the steps: a table's file, once written, is never changed
C9_Steps ==
    \A t \in TableNames :
        ~IsNull(disk.files[tablePath(t)]) =>
            disk'.files[tablePath(t)] = disk.files[tablePath(t)]

\* C9: in every run of generate(), whatever the interleaving of the table
\* callbacks, the aggregating file is written only after the file of every
\* table off the denylist; if a table fails, generate() fails, the
\* aggregating file is never written, and the table files already written
\* stay as they are.
C9_FailFast == [] C9_States /\ [][C9_Steps]_vars

C9_Witness ==
    /\ tpc["users"] = "failed"
    /\ tpc["posts"] = "written"
    /\ ~IsNull(disk.files[tablePath("posts")])
    /\ exitCode = Some(1)

\* the index rows of t over one column that names no column of the table
Unresolved(t) ==
    {j \in 1..Len(db.cat[t].indexes) :
        /\ Len(db.cat[t].indexes[j].indexed_columns) = 1
        /\ \A k \in 1..Len(db.cat[t].columns) :
              db.cat[t].columns[k].name
                  # StripDoubleQuotes(db.cat[t].indexes[j].indexed_columns[1])}

\* the index rows of t without the unresolved ones, from row j on
RECURSIVE Resolved(_, _)
Resolved(t, j) ==
    IF j > Len(db.cat[t].indexes) THEN << >>
    ELSE IF j \in Unresolved(t) THEN Resolved(t, j + 1)
    ELSE <<indexRowOf(db.cat[t].indexes[j])>> \o Resolved(t, j + 1)

\* the source of t with its unresolved indexes absent from the catalog
SourceWithoutUnresolved(t) ==
    singleTableGeneratorResult(
        t,
        columnClauses(
            classify(getColumns(columnInfoOf(db.cat[t].columns), db.cat[t].detailed).columnsInfo,
                     Resolved(t, 1)).columnsInfo,
            1, [threw |-> NoThrow, warned |-> 0, citext |-> FALSE, clauses |-> << >>]),
        indexClauses(
            classify(getColumns(columnInfoOf(db.cat[t].columns), db.cat[t].detailed).columnsInfo,
                     Resolved(t, 1)).indexes,
            1, [threw |-> NoThrow, warned |-> 0, clauses |-> << >>]))

\* the classification of the index rows of t has run
IndexesClassified(t) ==
    \E j \in 1..Len(indexes[t]) :
        indexes[t][j].single \/ indexes[t][j].multiple \/ indexes[t][j].error

\* C10 (as claimed): when the indexes of a table with consistent column
\* views have been read and classified and one of them is over one column
\* that names no column, the index is marked
\* unresolved, a diagnostic is logged and nothing is thrown for it: if the
\* table generates without that index, its source is made, equal to the
\* source without the index.
C10_UnresolvedIndexSkipped ==
    \A t \in TableNames :
        (IndexesClassified(t) /\ Unresolved(t) # {} /\ ConsistentCatalog(t)) =>
            /\ \A j \in Unresolved(t) :
                  j <= Len(indexes[t]) => indexes[t][j].error
            /\ SourceWithoutUnresolved(t).threw = NoThrow =>
                  /\ warnings >= 1
                  /\ Generated(t)
                  /\ Val(generated[t]).text = SourceWithoutUnresolved(t).text

(***************************************************************************)
(* Properties of the database functions of index.js, checked under SpecDb. *)
(***************************************************************************)
\* the functions the production guard is claimed for
Guarded ==
    {"dropDb", "recreateDb", "copyDb", "copyDbForTest", "rollbackCopyDbForTest"}

\* caller c has called function fn
Called(c, fn) == entry[c] # NULL /\ Val(entry[c]).fn = fn

\* the call of c was made with env 'production' or under NODE_ENV
\* 'production'
InProduction(c) ==
    /\ entry[c] # NULL
    /\ Val(entry[c]).env = Production \/ nodeEnv = Production

\* the step is one of the call of c, after the call was made
StepOf(c) == stack[c] # << >> /\ stack'[c] # stack[c]

\* no other call has been made
Alone(c) == \A d \in Callers \ {c} : entry[d] = NULL

\* every config of file names the database it names in file before
SameDatabaseNames(before, file) ==
    (before # NULL /\ file # NULL) =>
        \A e \in ConfigEnvs : Val(file)[e].database = Val(before)[e].database

\* every config names the database it named when the call of c was made
DatabaseNamesKept(c) == SameDatabaseNames(Val(entry[c]).knexfile, getKnexFile)

\* C11 (as claimed): when one of dropDb, recreateDb, copyDb, copyDbForTest
\* and rollbackCopyDbForTest has been called with env 'production' or under
\* NODE_ENV 'production', no step of the call issues a statement, destroys
\* or replaces the connection handle of the module, changes the database a
\* config names, or returns normally.
C11_ProductionGuard ==
    [][\A c \in Callers :
          (InProduction(c) /\ Val(entry[c]).fn \in Guarded /\ StepOf(c)) =>
              /\ statements'[c] = << >>
              /\ globalKnex' = globalKnex
              /\ destroyed' = destroyed
              /\ SameDatabaseNames(getKnexFile, getKnexFile')
              /\ outcome'[c] # "returned"]_vars

\* C12 (as claimed): whenever a call of dropDb or createDb, with no other
\* call made beside it, has ended, by a return or by an error thrown at any
\* step, every config names the database it named when the call was made.
C12_DatabaseNameRestored ==
    \A c \in Callers :
        ((Called(c, "dropDb") \/ Called(c, "createDb"))
            /\ Alone(c) /\ outcome[c] # NoOutcome) =>
                DatabaseNamesKept(c)
====
